---- MODULE Spec2Model ----
(***************************************************************************)
(* Floor-plan editor core: the command interpreter (performCommand), the   *)
(* geometry primitives it uses, and the history manager of the plan store  *)
(* (apply / undo / redo / loadPlan).                                       *)
(*                                                                         *)
(* Numbers.  Lengths are integers in units of 1/8 of a plan unit, so that  *)
(* MIN_SIZE (0.25) is 2, the minimum canvas size (0.5) is 4 and the seed   *)
(* plan's 4.5 is 36.  Zoom is in units of 1/10 (the minimum 0.1 is 1, the  *)
(* default 1 is 10).  Stroke width is in units of 1/100.                   *)
(*                                                                         *)
(* Time.  new Date().toISOString() and Date.now() read a millisecond clock;*)
(* the variable clock is that clock, advanced by the action Tick.          *)
(*                                                                         *)
(* Identifiers.  crypto.randomUUID() yields a fresh id; ids are the        *)
(* positive integers handed out in order by the counter nextId.            *)
(*                                                                         *)
(* Optional values.  An absent parentId is NoId.  An absent `holes` list   *)
(* is the empty sequence.  plan.areaGroups may be absent (plan/create      *)
(* builds a plan without it), which JSON.stringify tells apart from []:    *)
(* the plan field groupsDefined says whether the key is present.           *)
(***************************************************************************)
EXTENDS Integers, Sequences, FiniteSets, TLC

VARIABLES
    plan,        \* usePlanStore state.plan
    selection,   \* usePlanStore state.selection.areaIds
    history,     \* usePlanStore state.history: [undo, redo]
    clock,       \* the millisecond clock read by now() and Date.now()
    nextId,      \* the next id crypto.randomUUID() hands out
    applied,     \* number of apply calls made so far (bounds the model)
    last,        \* the store operation that produced this state
    trip,        \* bookkeeping of an apply^n ; undo^n ; redo^n round trip
    calc,        \* the last call of a geometry primitive: its arguments and its result
    mem          \* the store's objects by address: which plan object each reference points to

vars == <<plan, selection, history, clock, nextId, applied, last, trip, calc, mem>>

----------------------------------------------------------------------------
(* Bounds of the model *)

MaxApplies == 2      \* apply calls explored by Spec
MaxCmds == 1         \* apply calls explored by SpecCmd
MaxClock == 1        \* clock ticks explored by Spec and SpecCmd
MaxLong == 103       \* apply calls explored by SpecLong

(* Program constants *)

MIN_SIZE == 2            \* geometry: MIN_SIZE = 0.25
HistoryCap == 100        \* pushHistory: undo.slice(-100)
MinCanvas == 4           \* updatePlanDimensions: Math.max(payload.width, 0.5)
MinZoom == 1             \* setViewport: Math.max(0.1, payload.zoom)
DefaultZoom == 10        \* createPlan / createBlankPlan: zoom: 1
DefaultStrokeWidth == 4  \* strokeWidth: 0.04
NoId == 0                \* an absent (undefined) id, e.g. parentId
NoIndex == -1            \* a name that holds no digits

----------------------------------------------------------------------------
(* Small helpers *)

Min2(a, b) == IF a <= b THEN a ELSE b
Max2(a, b) == IF a >= b THEN a ELSE b
Abs(a) == IF a < 0 THEN -a ELSE a
Last(s) == s[Len(s)]
Front(s) == SubSeq(s, 1, Len(s) - 1)

RECURSIVE SeqSum(_)
SeqSum(s) == IF s = <<>> THEN 0 ELSE Head(s) + SeqSum(Tail(s))

RECURSIVE Flatten(_)
Flatten(ss) == IF ss = <<>> THEN <<>> ELSE Head(ss) \o Flatten(Tail(ss))

Range(s) == { s[i] : i \in 1..Len(s) }
SeqMap(Op(_), s) == [i \in 1..Len(s) |-> Op(s[i])]
SetMin(S) == CHOOSE m \in S : \A v \in S : m <= v
SetMax(S) == CHOOSE m \in S : \A v \in S : m >= v

----------------------------------------------------------------------------
(* Geometry primitives (domain/geometry) *)

clamp(value, lo, hi) == Min2(Max2(value, lo), hi)

Point(px, py) == [x |-> px, y |-> py]

RectShape(rx, ry, w, h) == [type |-> "rect", x |-> rx, y |-> ry, width |-> w, height |-> h]
EllipseShape(ecx, ecy, erx, ery) == [type |-> "ellipse", cx |-> ecx, cy |-> ecy, rx |-> erx, ry |-> ery]
PolygonShape(pts, hs) == [type |-> "polygon", points |-> pts, holes |-> hs]
MultiPolygonShape(polys, hs) == [type |-> "multipolygon", polygons |-> polys, holes |-> hs]

translatePolygon(points, dx, dy) ==
    [i \in 1..Len(points) |-> Point(points[i].x + dx, points[i].y + dy)]

constrainRectToBounds(rect, bounds) ==
    LET x == clamp(rect.x, 0, Max2(0, bounds.width - MIN_SIZE))
        y == clamp(rect.y, 0, Max2(0, bounds.height - MIN_SIZE))
        width == clamp(rect.width, MIN_SIZE, bounds.width - x)
        height == clamp(rect.height, MIN_SIZE, bounds.height - y)
    IN  [rect EXCEPT !.x = x, !.y = y, !.width = width, !.height = height]

(* faulty variant: the position is kept from going below 0 only *)
moveRect_lowerOnly(rect, dx, dy, bounds) ==
    [rect EXCEPT !.x = Max2(rect.x + dx, 0), !.y = Max2(rect.y + dy, 0)]

moveRect(rect, dx, dy, bounds) ==
    LET x == clamp(rect.x + dx, 0, Max2(0, bounds.width - rect.width))
        y == clamp(rect.y + dy, 0, Max2(0, bounds.height - rect.height))
    IN  [rect EXCEPT !.x = x, !.y = y]

(* a handle is the set of its letters: "ne" is {"n", "e"} *)
HandleHas(handle, c) == c \in handle

(* faulty variant: the handle-local clamps only, without the final re-clamp *)
applyRectResize_localOnly(rect, handle, dx, dy, bounds) ==
    LET w1 == IF HandleHas(handle, "e") THEN clamp(rect.width + dx, MIN_SIZE, bounds.width - rect.x)
              ELSE rect.width
        h1 == IF HandleHas(handle, "s") THEN clamp(rect.height + dy, MIN_SIZE, bounds.height - rect.y)
              ELSE rect.height
        nextX == clamp(rect.x + dx, 0, rect.x + w1 - MIN_SIZE)
        nextY == clamp(rect.y + dy, 0, rect.y + h1 - MIN_SIZE)
    IN  [rect EXCEPT
            !.x = IF HandleHas(handle, "w") THEN nextX ELSE rect.x,
            !.y = IF HandleHas(handle, "n") THEN nextY ELSE rect.y,
            !.width = IF HandleHas(handle, "w") THEN clamp(w1 - (nextX - rect.x), MIN_SIZE, bounds.width - nextX)
                      ELSE w1,
            !.height = IF HandleHas(handle, "n") THEN clamp(h1 - (nextY - rect.y), MIN_SIZE, bounds.height - nextY)
                       ELSE h1]

applyRectResize(rect, handle, dx, dy, bounds) ==
    LET maxWidth == bounds.width
        maxHeight == bounds.height
        x0 == rect.x
        y0 == rect.y
        w1 == IF HandleHas(handle, "e") THEN clamp(rect.width + dx, MIN_SIZE, maxWidth - x0) ELSE rect.width
        h1 == IF HandleHas(handle, "s") THEN clamp(rect.height + dy, MIN_SIZE, maxHeight - y0) ELSE rect.height
        nextX == clamp(x0 + dx, 0, x0 + w1 - MIN_SIZE)
        w2 == IF HandleHas(handle, "w") THEN clamp(w1 - (nextX - x0), MIN_SIZE, maxWidth - nextX) ELSE w1
        x1 == IF HandleHas(handle, "w") THEN nextX ELSE x0
        nextY == clamp(y0 + dy, 0, y0 + h1 - MIN_SIZE)
        h2 == IF HandleHas(handle, "n") THEN clamp(h1 - (nextY - y0), MIN_SIZE, maxHeight - nextY) ELSE h1
        y1 == IF HandleHas(handle, "n") THEN nextY ELSE y0
        width == Max2(MIN_SIZE, Min2(w2, maxWidth))
        height == Max2(MIN_SIZE, Min2(h2, maxHeight))
        x == clamp(x1, 0, maxWidth - width)
        y == clamp(y1, 0, maxHeight - height)
    IN  [rect EXCEPT !.x = x, !.y = y, !.width = width, !.height = height]

(* a faulty split: the first slice starts one slice after the origin *)
splitRectEvenly_fromOne(rect, count, direction) ==
    IF count <= 1 THEN << rect >>
    ELSE IF direction = "vertical"
         THEN [i \in 1..count |-> RectShape(rect.x + (rect.width \div count) * i, rect.y,
                                            rect.width \div count, rect.height)]
         ELSE [i \in 1..count |-> RectShape(rect.x, rect.y + (rect.height \div count) * i,
                                            rect.width, rect.height \div count)]

(* faulty variant: the last slice is left out *)
splitRectEvenly_dropLast(rect, count, direction) ==
    IF count <= 1 THEN << rect >>
    ELSE IF direction = "vertical"
         THEN [i \in 1..(count - 1) |-> RectShape(rect.x + (rect.width \div count) * (i - 1), rect.y,
                                                  rect.width \div count, rect.height)]
         ELSE [i \in 1..(count - 1) |-> RectShape(rect.x, rect.y + (rect.height \div count) * (i - 1),
                                                  rect.width, rect.height \div count)]

(* count slices of size/count each; the model keeps sizes divisible by count *)
splitRectEvenly(rect, count, direction) ==
    IF count <= 1 THEN << rect >>
    ELSE IF direction = "vertical"
         THEN LET slice == rect.width \div count
              IN  [i \in 1..count |-> RectShape(rect.x + slice * (i - 1), rect.y, slice, rect.height)]
         ELSE LET slice == rect.height \div count
              IN  [i \in 1..count |-> RectShape(rect.x, rect.y + slice * (i - 1), rect.width, slice)]

ShapePoints(shape) ==
    IF shape.type = "polygon"
    THEN shape.points \o Flatten(shape.holes)
    ELSE Flatten(shape.polygons) \o Flatten(Flatten(shape.holes))

shapeBoundingBox(shape) ==
    IF shape.type = "rect"
    THEN [x |-> shape.x, y |-> shape.y, width |-> shape.width, height |-> shape.height]
    ELSE IF shape.type = "ellipse"
    THEN [x |-> shape.cx - shape.rx, y |-> shape.cy - shape.ry, width |-> shape.rx * 2, height |-> shape.ry * 2]
    ELSE LET pts == ShapePoints(shape)
             xs == { pts[i].x : i \in 1..Len(pts) }
             ys == { pts[i].y : i \in 1..Len(pts) }
         IN  [x |-> SetMin(xs), y |-> SetMin(ys),
              width |-> SetMax(xs) - SetMin(xs), height |-> SetMax(ys) - SetMin(ys)]

ellipseToRect(e) == RectShape(e.cx - e.rx, e.cy - e.ry, e.rx * 2, e.ry * 2)

(* faulty variant: the centre is put on the corner of the rect *)
rectToEllipse_corner(rect) ==
    EllipseShape(rect.x, rect.y, rect.width \div 2, rect.height \div 2)

(* rx = width / 2, ry = height / 2; the model calls it with even sizes *)
rectToEllipse(rect) ==
    LET rx == rect.width \div 2
        ry == rect.height \div 2
    IN  EllipseShape(rect.x + rx, rect.y + ry, rx, ry)

----------------------------------------------------------------------------
(* Identity and naming (domain/naming) *)

(* A name is text, the first run of digits in it (NoIndex when it has     *)
(* none) and the text after that run.                                      *)
Name(base, index, suffix) == [base |-> base, index |-> index, suffix |-> suffix]

RECURSIVE Pow2(_)
Pow2(k) == IF k = 0 THEN 1 ELSE 2 * Pow2(k - 1)

(* A number of the program is a double: a whole number is held exactly up *)
(* to 2^53 and rounded to 53 significant bits, ties to even, above.  The  *)
(* model keeps IndexBits significant bits of an area index.               *)
IndexBits == 8

RECURSIVE ExponentAt(_, _, _)
ExponentAt(bits, a, e) == IF a < Pow2(bits + e) THEN e ELSE ExponentAt(bits, a, e + 1)

(* the whole number a >= 0 rounded to the given number of significant bits *)
RoundAt(bits, a) ==
    LET e == ExponentAt(bits, a, 0)
        q == a \div Pow2(e)
        r == a % Pow2(e)
    IN  IF 2 * r > Pow2(e) \/ (2 * r = Pow2(e) /\ q % 2 = 1) THEN (q + 1) * Pow2(e) ELSE q * Pow2(e)

(* parseInt(match[1], 10) and max + 1 are numbers *)
nextAreaIndex(p) ==
    LET nums == { RoundAt(IndexBits, Max2(p.areas[i].name.index, 0)) : i \in 1..Len(p.areas) } \cup {0}
    IN  RoundAt(IndexBits, SetMax(nums) + 1)

defaultAreaName(p) == Name("Area ", nextAreaIndex(p), "")

Suffixes == <<"A", "B", "C", "D", "E", "F", "G", "H", "I", "J", "K", "L", "M",
              "N", "O", "P", "Q", "R", "S", "T", "U", "V", "W", "X", "Y", "Z">>

partitionNames(base, count) ==
    IF count <= 1 THEN << base >>
    ELSE [idx \in 1..count |->
            [base EXCEPT !.suffix =
                @ \o " " \o (IF idx <= Len(Suffixes) THEN Suffixes[idx] ELSE ToString(idx))]]

AreaIds(p) == { p.areas[i].id : i \in 1..Len(p.areas) }

HasArea(p, id) == id \in AreaIds(p)

(* index of the first area with the given id; 0 when there is none *)
AreaIndex(p, id) ==
    IF HasArea(p, id) THEN SetMin({ i \in 1..Len(p.areas) : p.areas[i].id = id }) ELSE 0

findArea(p, id) == p.areas[AreaIndex(p, id)]

----------------------------------------------------------------------------
(* Plan documents (domain/types, domain/planFactory) *)

NoOffset == [set |-> FALSE, x |-> 0, y |-> 0]
Offset(ox, oy) == [set |-> TRUE, x |-> ox, y |-> oy]

Area(id, name, fill, stroke, strokeWidth, shape, parentId) ==
    [id |-> id, name |-> name, fill |-> fill, stroke |-> stroke,
     strokeWidth |-> strokeWidth, shape |-> shape, parentId |-> parentId,
     labelOffset |-> NoOffset, edgeLabelOffsets |-> <<>>, radiusLabelOffset |-> NoOffset]

createBlankPlan(width, height, units, name, t) ==
    [version |-> "1.0",
     units |-> units,
     canvas |-> [width |-> width, height |-> height, zoom |-> DefaultZoom, pan |-> Point(0, 0)],
     areas |-> <<>>,
     areaGroups |-> <<>>,
     groupsDefined |-> TRUE,
     meta |-> [name |-> name, createdAt |-> t, updatedAt |-> t]]

(* seedPlan(): a 12 x 9 m plan with two rect areas, ids 1 and 2 *)
seedPlan ==
    LET blank == createBlankPlan(96, 72, "m", "Demo Floor", 0)
        baseName == defaultAreaName(blank)
    IN  [blank EXCEPT !.areas =
            << Area(1, baseName, "#bfdbfe", "#1d4ed8", DefaultStrokeWidth, RectShape(8, 8, 32, 24), NoId),
               Area(2, [baseName EXCEPT !.suffix = @ \o " B"], "#fecdd3", "#be123c",
                    DefaultStrokeWidth, RectShape(48, 16, 36, 32), NoId) >>]

clonePlan(p) == p

ensureUpdated(p, t) == [p EXCEPT !.meta.updatedAt = t]

----------------------------------------------------------------------------
(* Grouping (domain/grouping) *)

addGroup(p, id, name, areaIds) ==
    [p EXCEPT !.areaGroups = Append(@, [id |-> id, name |-> name, areaIds |-> areaIds, visible |-> TRUE]),
              !.groupsDefined = TRUE]

toggleGroupVisibility(p, id, visible) ==
    [p EXCEPT !.areaGroups = [i \in 1..Len(@) |-> IF @[i].id = id THEN [@[i] EXCEPT !.visible = visible] ELSE @[i]],
              !.groupsDefined = TRUE]

deleteGroup(p, id) ==
    LET keep(g) == g.id # id
    IN  [p EXCEPT !.areaGroups = SelectSeq(@, keep), !.groupsDefined = TRUE]

----------------------------------------------------------------------------
(* Polygon helpers of the interpreter (domain/commands) *)

(* a ring of the boolean engine is a sequence of <<x, y>> pairs *)
ringsToPoints(ring) ==
    LET trimmed == IF Len(ring) > 1 /\ ring[1][1] = Last(ring)[1] /\ ring[1][2] = Last(ring)[2]
                   THEN Front(ring) ELSE ring
    IN  [i \in 1..Len(trimmed) |-> Point(trimmed[i][1], trimmed[i][2])]

(* a faulty mirrorPoint: reflects about a line one unit off the centre *)
mirrorPoint_offCentre(point, axis, center2) ==
    IF axis = "vertical"
    THEN Point(center2.x + 1 - point.x, point.y)
    ELSE Point(point.x, center2.y + 1 - point.y)

(* center2 is twice the centre: the code's center.x * 2 *)
mirrorPoint(point, axis, center2) ==
    IF axis = "vertical"
    THEN Point(center2.x - point.x, point.y)
    ELSE Point(point.x, center2.y - point.y)

(* the shoelace sum: twice the signed area *)
Shoelace(points) ==
    IF Len(points) < 3 THEN 0
    ELSE Abs(SeqSum([i \in 1..Len(points) |->
            LET cur == points[i]
                nxt == points[(i % Len(points)) + 1]
            IN  cur.x * nxt.y - nxt.x * cur.y]))

(* twice polygonAreaWithHoles *)
polygonAreaWithHoles2(points, holes) ==
    Max2(0, Shoelace(points) - SeqSum([i \in 1..Len(holes) |-> Shoelace(holes[i])]))

HolesOf(shape, idx) == IF idx <= Len(shape.holes) THEN shape.holes[idx] ELSE <<>>

(* shapeArea times 226, with pi taken as 355/113 *)
shapeArea(shape) ==
    IF shape.type = "rect" THEN 226 * Abs(shape.width * shape.height)
    ELSE IF shape.type = "ellipse" THEN 710 * Abs(shape.rx * shape.ry)
    ELSE IF shape.type = "polygon" THEN 113 * polygonAreaWithHoles2(shape.points, shape.holes)
    ELSE 113 * SeqSum([i \in 1..Len(shape.polygons) |->
                 polygonAreaWithHoles2(shape.polygons[i], HolesOf(shape, i))])

(* The ring sampled from an ellipse.  The code samples 48 angles; the ones *)
(* at 0, 90, 180 and 270 degrees are the exact points kept here.           *)
SampleEllipse(cx, cy, rx, ry) ==
    << Point(cx + rx, cy), Point(cx, cy + ry), Point(cx - rx, cy), Point(cx, cy - ry) >>

RectCorners(r) ==
    << Point(r.x, r.y), Point(r.x + r.width, r.y),
       Point(r.x + r.width, r.y + r.height), Point(r.x, r.y + r.height) >>

----------------------------------------------------------------------------
(* Command interpreter (domain/commands).  A command c is a record: its    *)
(* type and the fields of its payload.  t is the value now() returns       *)
(* during the call and nid the first id crypto.randomUUID() returns.  A    *)
(* result is the CommandResult {plan, selection?, description?}, plus the  *)
(* number of ids the call put into the plan.                               *)

Result(p, sel, desc, used) ==
    [plan |-> p, hasSelection |-> TRUE, selection |-> sel, description |-> desc, used |-> used]

ResultNoSelection(p, desc) ==
    [plan |-> p, hasSelection |-> FALSE, selection |-> <<>>, description |-> desc, used |-> 0]

(* payload.x ?? d, an absent string being "" *)
OrDefault(v, d) == IF v # "" THEN v ELSE d

(* return { plan } *)
Unchanged(p) ==
    [plan |-> p, hasSelection |-> FALSE, selection |-> <<>>, description |-> "", used |-> 0]

SetShape(p, id, shape) == [p EXCEPT !.areas[AreaIndex(p, id)].shape = shape]

RemoveAreas(p, ids) ==
    LET keep(a) == a.id \notin ids
    IN  [p EXCEPT !.areas = SelectSeq(@, keep)]

updatePlanDimensions(p, c, t) ==
    LET next == [p EXCEPT
                    !.canvas.width = IF c.hasWidth THEN Max2(c.width, MinCanvas) ELSE @,
                    !.canvas.height = IF c.hasHeight THEN Max2(c.height, MinCanvas) ELSE @]
    IN  ResultNoSelection(ensureUpdated(next, t), "Resize plan")

createPlan(p, c, t) ==
    LET next == [version |-> "1.0",
                 units |-> c.units,
                 canvas |-> [width |-> c.width, height |-> c.height, zoom |-> DefaultZoom, pan |-> Point(0, 0)],
                 areas |-> <<>>,
                 areaGroups |-> <<>>,
                 groupsDefined |-> FALSE,
                 meta |-> [name |-> c.name, createdAt |-> t, updatedAt |-> t]]
    IN  Result(next, <<>>, "Create plan", 0)

setViewport(p, c, t) ==
    LET next == [p EXCEPT
                    !.canvas.zoom = IF c.hasZoom THEN Max2(MinZoom, c.zoom) ELSE @,
                    !.canvas.pan = IF c.hasPan THEN c.pan ELSE @]
    IN  ResultNoSelection(ensureUpdated(next, t), "Viewport change")

createAreasFromRect(p, c, baseName, t, nid) ==
    LET partitions == Max2(1, c.partitions)
        direction == IF c.direction # "" THEN c.direction
                     ELSE IF c.rect.width >= c.rect.height THEN "vertical" ELSE "horizontal"
        rects == splitRectEvenly(constrainRectToBounds(c.rect, p.canvas), partitions, direction)
        names == partitionNames(baseName, partitions)
        created == [idx \in 1..Len(rects) |->
                       Area(nid + idx - 1, names[idx], OrDefault(c.fill, "#bfdbfe"), OrDefault(c.stroke, "#1d4ed8"),
                            DefaultStrokeWidth, rects[idx], c.parentId)]
        next == [p EXCEPT !.areas = @ \o created]
    IN  Result(ensureUpdated(next, t), [idx \in 1..Len(rects) |-> nid + idx - 1], "Create area", Len(rects))

createArea(p, c, t, nid) ==
    createAreasFromRect(p, c, IF c.hasName THEN c.name ELSE defaultAreaName(p), t, nid)

createPolygon(p, c, t, nid) ==
    IF Len(c.points) < 3 THEN Unchanged(p)
    ELSE LET area == Area(nid, IF c.hasName THEN c.name ELSE defaultAreaName(p), "#d8b4fe", "#6b21a8",
                          DefaultStrokeWidth, PolygonShape(c.points, <<>>), NoId)
         IN  Result(ensureUpdated([p EXCEPT !.areas = Append(@, area)], t), <<nid>>, "Create polygon", 1)

createEllipse(p, c, t, nid) ==
    LET area == Area(nid, IF c.hasName THEN c.name ELSE defaultAreaName(p), "#fecaca", "#dc2626",
                     DefaultStrokeWidth, EllipseShape(c.cx, c.cy, c.rx, c.ry), NoId)
    IN  Result(ensureUpdated([p EXCEPT !.areas = Append(@, area)], t), <<nid>>, "Create ellipse", 1)

(* a faulty paste: keeps polygons of fewer than 3 points *)
PastedShape_keepShort(shape, dx, dy, canvas) ==
    IF shape.type = "rect"
    THEN [accepted |-> TRUE,
          shape |-> constrainRectToBounds([shape EXCEPT !.x = @ + dx, !.y = @ + dy], canvas)]
    ELSE IF shape.type = "ellipse"
    THEN [accepted |-> TRUE, shape |-> [shape EXCEPT !.cx = @ + dx, !.cy = @ + dy]]
    ELSE IF shape.type = "polygon"
    THEN [accepted |-> TRUE,
          shape |-> PolygonShape(translatePolygon(shape.points, dx, dy),
                                 [h \in 1..Len(shape.holes) |-> translatePolygon(shape.holes[h], dx, dy)])]
    ELSE [accepted |-> Len(shape.polygons) > 0,
          shape |-> MultiPolygonShape(
                       [i \in 1..Len(shape.polygons) |-> translatePolygon(shape.polygons[i], dx, dy)],
                       [i \in 1..Len(shape.holes) |->
                           [h \in 1..Len(shape.holes[i]) |-> translatePolygon(shape.holes[i][h], dx, dy)]])]

(* the shape pasteAreas gives a copied area; accepted is FALSE when the   *)
(* area is dropped                                                        *)
PastedShape(shape, dx, dy, canvas) ==
    IF shape.type = "rect"
    THEN [accepted |-> TRUE,
          shape |-> constrainRectToBounds([shape EXCEPT !.x = @ + dx, !.y = @ + dy], canvas)]
    ELSE IF shape.type = "ellipse"
    THEN [accepted |-> TRUE, shape |-> [shape EXCEPT !.cx = @ + dx, !.cy = @ + dy]]
    ELSE IF shape.type = "polygon"
    THEN [accepted |-> Len(shape.points) >= 3,
          shape |-> PolygonShape(translatePolygon(shape.points, dx, dy),
                                 [h \in 1..Len(shape.holes) |-> translatePolygon(shape.holes[h], dx, dy)])]
    ELSE [accepted |-> Len(shape.polygons) > 0 /\ \A i \in 1..Len(shape.polygons) : Len(shape.polygons[i]) >= 3,
          shape |-> MultiPolygonShape(
                       [i \in 1..Len(shape.polygons) |-> translatePolygon(shape.polygons[i], dx, dy)],
                       [i \in 1..Len(shape.holes) |->
                           [h \in 1..Len(shape.holes[i]) |-> translatePolygon(shape.holes[i][h], dx, dy)]])]

(* a faulty paste: a copy keeps the id of the area it was copied from *)
RECURSIVE PasteEach_keepId(_, _, _, _, _)
PasteEach_keepId(areas, c, canvas, nid, acc) ==
    IF areas = <<>> THEN acc
    ELSE LET area == Head(areas)
             pasted == PastedShape(area.shape, c.dx, c.dy, canvas)
             copy == [area EXCEPT !.shape = pasted.shape, !.parentId = NoId]
         IN  PasteEach_keepId(Tail(areas), c, canvas, nid, IF pasted.accepted THEN Append(acc, copy) ELSE acc)

RECURSIVE PasteEach(_, _, _, _, _)
PasteEach(areas, c, canvas, nid, acc) ==
    IF areas = <<>> THEN acc
    ELSE LET area == Head(areas)
             pasted == PastedShape(area.shape, c.dx, c.dy, canvas)
             name == IF c.nameSuffix # "" THEN [area.name EXCEPT !.suffix = @ \o " " \o c.nameSuffix]
                     ELSE area.name
             copy == [Area(nid + Len(acc), name, area.fill, area.stroke, area.strokeWidth, pasted.shape, NoId)
                        EXCEPT !.labelOffset = area.labelOffset,
                               !.edgeLabelOffsets = area.edgeLabelOffsets,
                               !.radiusLabelOffset = area.radiusLabelOffset]
         IN  PasteEach(Tail(areas), c, canvas, nid, IF pasted.accepted THEN Append(acc, copy) ELSE acc)

pasteAreas(p, c, t, nid) ==
    LET created == PasteEach(c.areas, c, p.canvas, nid, <<>>)
    IN  IF created = <<>> THEN Unchanged(p)
        ELSE Result(ensureUpdated([p EXCEPT !.areas = @ \o created], t),
                    [i \in 1..Len(created) |-> created[i].id], "Paste areas", Len(created))

moveArea(p, c, t) ==
    IF ~HasArea(p, c.id) \/ findArea(p, c.id).shape.type # "rect" THEN Unchanged(p)
    ELSE Result(ensureUpdated(SetShape(p, c.id, moveRect(findArea(p, c.id).shape, c.dx, c.dy, p.canvas)), t),
                <<c.id>>, "Move area", 0)

TranslateShape(shape, dx, dy) ==
    IF shape.type = "polygon"
    THEN [shape EXCEPT !.points = translatePolygon(@, dx, dy),
                       !.holes = [h \in 1..Len(@) |-> translatePolygon(@[h], dx, dy)]]
    ELSE [shape EXCEPT !.polygons = [i \in 1..Len(@) |-> translatePolygon(@[i], dx, dy)],
                       !.holes = [i \in 1..Len(@) |-> [h \in 1..Len(@[i]) |-> translatePolygon(@[i][h], dx, dy)]]]

movePolygonArea(p, c, t) ==
    IF ~HasArea(p, c.id) THEN Unchanged(p)
    ELSE IF findArea(p, c.id).shape.type \in {"polygon", "multipolygon"}
    THEN Result(ensureUpdated(SetShape(p, c.id, TranslateShape(findArea(p, c.id).shape, c.dx, c.dy)), t),
                <<c.id>>, "Move polygon", 0)
    ELSE Unchanged(p)

resizeArea(p, c, t) ==
    IF ~HasArea(p, c.id) \/ findArea(p, c.id).shape.type # "rect" THEN Unchanged(p)
    ELSE Result(ensureUpdated(SetShape(p, c.id,
                    applyRectResize(findArea(p, c.id).shape, c.handle, c.dx, c.dy, p.canvas)), t),
                <<c.id>>, "Resize area", 0)

rectsOverlap(a, b) ==
    /\ a.x < b.x + b.width
    /\ a.x + a.width > b.x
    /\ a.y < b.y + b.height
    /\ a.y + a.height > b.y

(* a faulty setAreaRect: refuses a rect that overlaps another rect area *)
setAreaRect_rejectOverlap(p, c, t) ==
    IF ~HasArea(p, c.id) THEN Unchanged(p)
    ELSE IF findArea(p, c.id).shape.type # "rect" THEN Unchanged(p)
    ELSE IF \E i \in 1..Len(p.areas) :
                /\ p.areas[i].id # c.id
                /\ p.areas[i].shape.type = "rect"
                /\ rectsOverlap(constrainRectToBounds(c.rect, p.canvas), p.areas[i].shape)
    THEN Unchanged(p)
    ELSE Result(ensureUpdated(SetShape(p, c.id, constrainRectToBounds(c.rect, p.canvas)), t),
                <<c.id>>, "Update area", 0)

setAreaRect(p, c, t) ==
    IF ~HasArea(p, c.id) THEN Unchanged(p)
    ELSE IF findArea(p, c.id).shape.type # "rect" THEN Unchanged(p)
    ELSE Result(ensureUpdated(SetShape(p, c.id, constrainRectToBounds(c.rect, p.canvas)), t),
                <<c.id>>, "Update area", 0)

setPolygon(p, c, t) ==
    IF ~HasArea(p, c.id) \/ findArea(p, c.id).shape.type \notin {"polygon", "rect"} THEN Unchanged(p)
    ELSE LET shape == findArea(p, c.id).shape
             holes == IF shape.type = "polygon" THEN shape.holes ELSE <<>>
         IN  Result(ensureUpdated(SetShape(p, c.id, PolygonShape(c.points, holes)), t),
                    <<c.id>>, "Edit polygon", 0)

(* a faulty setEllipse: does not look at the target's shape variant *)
setEllipse_anyShape(p, c, t) ==
    IF ~HasArea(p, c.id) THEN Unchanged(p)
    ELSE Result(ensureUpdated(SetShape(p, c.id, c.ellipse), t), <<c.id>>, "Edit ellipse", 0)

setEllipse(p, c, t) ==
    IF ~HasArea(p, c.id) \/ findArea(p, c.id).shape.type # "ellipse" THEN Unchanged(p)
    ELSE Result(ensureUpdated(SetShape(p, c.id, c.ellipse), t), <<c.id>>, "Edit ellipse", 0)

setMultiPolygon(p, c, t) ==
    IF ~HasArea(p, c.id) \/ findArea(p, c.id).shape.type # "multipolygon" THEN Unchanged(p)
    ELSE Result(ensureUpdated(SetShape(p, c.id, [findArea(p, c.id).shape EXCEPT !.polygons = c.polygons]), t),
                <<c.id>>, "Edit multipolygon", 0)

RECURSIVE SetRectEach(_, _)
SetRectEach(p, updates) ==
    IF updates = <<>> THEN p
    ELSE LET u == Head(updates)
         IN  SetRectEach(IF HasArea(p, u.id) /\ findArea(p, u.id).shape.type = "rect"
                         THEN SetShape(p, u.id, constrainRectToBounds(u.rect, p.canvas))
                         ELSE p,
                         Tail(updates))

(* a faulty setAreaRectBatch: selects the id of every entry, skipped or not *)
setAreaRectBatch_selectAll(p, c, t) ==
    LET valid(u) == HasArea(p, u.id) /\ findArea(p, u.id).shape.type = "rect"
        validUpdates == SelectSeq(c.updates, valid)
    IN  Result(ensureUpdated(SetRectEach(p, validUpdates), t),
               [i \in 1..Len(c.updates) |-> c.updates[i].id], "Update areas", 0)

setAreaRectBatch(p, c, t) ==
    LET valid(u) == HasArea(p, u.id) /\ findArea(p, u.id).shape.type = "rect"
        validUpdates == SelectSeq(c.updates, valid)
    IN  Result(ensureUpdated(SetRectEach(p, validUpdates), t),
               [i \in 1..Len(validUpdates) |-> validUpdates[i].id], "Update areas", 0)

renameArea(p, c, t) ==
    IF ~HasArea(p, c.id) THEN Unchanged(p)
    ELSE Result(ensureUpdated([p EXCEPT !.areas[AreaIndex(p, c.id)].name = c.name], t),
                <<c.id>>, "Rename area", 0)

(* a faulty recolorArea: paints the stroke as well *)
recolorArea_stroke(p, c, t) ==
    IF ~HasArea(p, c.id) THEN Unchanged(p)
    ELSE Result(ensureUpdated([p EXCEPT !.areas[AreaIndex(p, c.id)].fill = c.fill,
                                        !.areas[AreaIndex(p, c.id)].stroke = c.fill], t),
                <<c.id>>, "Recolor area", 0)

recolorArea(p, c, t) ==
    IF ~HasArea(p, c.id) THEN Unchanged(p)
    ELSE Result(ensureUpdated([p EXCEPT !.areas[AreaIndex(p, c.id)].fill = c.fill], t),
                <<c.id>>, "Recolor area", 0)

(* a number rounded to the given number of significant bits, ties to      *)
(* even; 0 bits stands for arithmetic that is exact, as it is on the       *)
(* editor's grid                                                           *)
RoundTo(bits, n) ==
    IF bits = 0 THEN n ELSE IF n < 0 THEN -RoundAt(bits, -n) ELSE RoundAt(bits, n)

(* mirrorArea's new shape, every arithmetic result rounded to bits: the    *)
(* width maxX - minX, the centre bbox.x + bbox.width / 2 (kept doubled),   *)
(* and each reflected coordinate center * 2 - p                            *)
MirrorWith(bits, shape, axis) ==
    IF shape.type \in {"rect", "ellipse"} THEN shape
    ELSE LET R(n) == RoundTo(bits, n)
             bbox == shapeBoundingBox(shape)
             center2 == Point(R(2 * bbox.x + R(bbox.width)), R(2 * bbox.y + R(bbox.height)))
             moved(q) == LET m == mirrorPoint(q, axis, center2) IN Point(R(m.x), R(m.y))
             ring(r) == [i \in 1..Len(r) |-> moved(r[i])]
         IN  IF shape.type = "polygon"
             THEN [shape EXCEPT !.points = ring(@), !.holes = [h \in 1..Len(@) |-> ring(@[h])]]
             ELSE [shape EXCEPT !.polygons = [i \in 1..Len(@) |-> ring(@[i])],
                                !.holes = [i \in 1..Len(@) |-> [h \in 1..Len(@[i]) |-> ring(@[i][h])]]]

MirrorShape(shape, axis) == MirrorWith(0, shape, axis)

mirrorArea(p, c, t) ==
    IF ~HasArea(p, c.id) THEN Unchanged(p)
    ELSE Result(ensureUpdated(SetShape(p, c.id, MirrorShape(findArea(p, c.id).shape, c.axis)), t),
                <<c.id>>, "Mirror area", 0)

(* faulty variant: the deleted id is also taken out of the groups *)
deleteArea_purgeGroups(p, c, t) ==
    LET other(id) == id # c.id
        purged == [RemoveAreas(p, {c.id}) EXCEPT
                      !.areaGroups = [i \in 1..Len(@) |-> [@[i] EXCEPT !.areaIds = SelectSeq(@, other)]]]
    IN  Result(ensureUpdated(purged, t), <<>>, "Delete area", 0)

deleteArea(p, c, t) ==
    Result(ensureUpdated(RemoveAreas(p, {c.id}), t), <<>>, "Delete area", 0)

(* What polygonClipping.union / difference returned (c.engine), read the  *)
(* way mergeAreas and subtractAreas read it: a component whose outer ring *)
(* has at least 3 entries gives one polygon and its list of holes.        *)
EngineKept(engine) ==
    LET ok(poly) == Len(poly) >= 1 /\ Len(poly[1]) >= 3
    IN  SelectSeq(engine, ok)

EnginePolygons(engine) ==
    LET kept == EngineKept(engine)
    IN  [i \in 1..Len(kept) |-> ringsToPoints(kept[i][1])]

EngineHoles(engine) ==
    LET kept == EngineKept(engine)
    IN  [i \in 1..Len(kept) |-> [h \in 1..(Len(kept[i]) - 1) |-> ringsToPoints(kept[i][h + 1])]]

EngineShape(engine) ==
    LET polygons == EnginePolygons(engine)
        holes == EngineHoles(engine)
    IN  IF Len(polygons) = 1 THEN PolygonShape(polygons[1], holes[1])
        ELSE MultiPolygonShape(polygons, holes)

(* payload.ids.map(findArea).filter(Boolean) *)
Targets(p, ids) ==
    LET found(id) == HasArea(p, id)
        present == SelectSeq(ids, found)
    IN  [i \in 1..Len(present) |-> findArea(p, present[i])]

(* a faulty reduce: an area as large as the largest so far replaces it *)
RECURSIVE LargestOf_lastOfTies(_, _)
LargestOf_lastOfTies(largest, rest) ==
    IF rest = <<>> THEN largest
    ELSE LargestOf_lastOfTies(IF shapeArea(Head(rest).shape) >= shapeArea(largest.shape) THEN Head(rest) ELSE largest,
                              Tail(rest))

(* targets.reduce((largest, area) => shapeArea(area) > shapeArea(largest) ? area : largest) *)
RECURSIVE LargestOf(_, _)
LargestOf(largest, rest) ==
    IF rest = <<>> THEN largest
    ELSE LargestOf(IF shapeArea(Head(rest).shape) > shapeArea(largest.shape) THEN Head(rest) ELSE largest,
                   Tail(rest))

(* a faulty subtract: leaves the cutters in the plan *)
subtractAreas_keepCutters(p, c, t) ==
    IF Len(c.ids) < 2 \/ Len(Targets(p, c.ids)) < 2 THEN Unchanged(p)
    ELSE IF EnginePolygons(c.engine) = <<>>
    THEN Result(ensureUpdated(RemoveAreas(p, Range(c.ids)), t), <<>>, "Subtract areas", 0)
    ELSE Result(ensureUpdated(SetShape(p, LargestOf(Head(Targets(p, c.ids)), Tail(Targets(p, c.ids))).id,
                                       EngineShape(c.engine)), t),
                << LargestOf(Head(Targets(p, c.ids)), Tail(Targets(p, c.ids))).id >>, "Subtract areas", 0)

(* a faulty subtract: selects every id the command listed *)
subtractAreas_selectListed(p, c, t) ==
    IF Len(c.ids) < 2 \/ Len(Targets(p, c.ids)) < 2 THEN Unchanged(p)
    ELSE IF EnginePolygons(c.engine) = <<>>
    THEN Result(ensureUpdated(RemoveAreas(p, Range(c.ids)), t), <<>>, "Subtract areas", 0)
    ELSE Result(ensureUpdated(SetShape(RemoveAreas(p, Range(c.ids)
                                           \ {LargestOf(Head(Targets(p, c.ids)), Tail(Targets(p, c.ids))).id}),
                                       LargestOf(Head(Targets(p, c.ids)), Tail(Targets(p, c.ids))).id,
                                       EngineShape(c.engine)), t),
                c.ids, "Subtract areas", 0)

subtractAreas(p, c, t) ==
    IF Len(c.ids) < 2 THEN Unchanged(p)
    ELSE LET targets == Targets(p, c.ids)
         IN  IF Len(targets) < 2 THEN Unchanged(p)
             ELSE LET base == LargestOf(Head(targets), Tail(targets))
                      polygons == EnginePolygons(c.engine)
                  IN  IF polygons = <<>>
                      THEN Result(ensureUpdated(RemoveAreas(p, Range(c.ids)), t), <<>>, "Subtract areas", 0)
                      ELSE LET kept == RemoveAreas(p, Range(c.ids) \ {base.id})
                           IN  Result(ensureUpdated(SetShape(kept, base.id, EngineShape(c.engine)), t),
                                      <<base.id>>, "Subtract areas", 0)

mergeAreas(p, c, t, nid) ==
    IF Len(c.ids) < 2 THEN Unchanged(p)
    ELSE LET targets == Targets(p, c.ids)
         IN  IF Len(targets) < 2 THEN Unchanged(p)
             ELSE IF EnginePolygons(c.engine) = <<>> THEN Unchanged(p)
             ELSE LET merged == Area(nid, IF c.hasName THEN c.name ELSE Name("Area", NoIndex, ""),
                                     OrDefault(c.fill, targets[1].fill), OrDefault(c.stroke, targets[1].stroke),
                                     targets[1].strokeWidth, EngineShape(c.engine), NoId)
                      next == [RemoveAreas(p, Range(c.ids)) EXCEPT !.areas = Append(@, merged)]
                  IN  Result(ensureUpdated(next, t), <<nid>>, "Merge areas", 1)

(* the rings convertToPolygon collects from one area *)
OutlineRings(shape) ==
    IF shape.type = "rect" THEN << RectCorners(shape) >>
    ELSE IF shape.type = "ellipse"
    THEN LET rect == ellipseToRect(shape)
         \* rect.x + rect.width / 2 is the centre and rect.width / 2 the radius
         IN  << SampleEllipse(rect.x + rect.width \div 2, rect.y + rect.height \div 2,
                              rect.width \div 2, rect.height \div 2) >>
    ELSE IF shape.type = "polygon" THEN << shape.points >>
    ELSE shape.polygons

(* a faulty convertToPolygon: a single target always gives a polygon, of   *)
(* the first ring collected                                               *)
convertToPolygon_byTargets(p, c, t, nid) ==
    IF Len(c.ids) < 1 THEN Unchanged(p)
    ELSE LET targets == Targets(p, c.ids)
             polygons == Flatten([i \in 1..Len(targets) |-> OutlineRings(targets[i].shape)])
         IN  IF targets = <<>> \/ polygons = <<>> THEN Unchanged(p)
             ELSE LET shape == IF Len(targets) = 1 THEN PolygonShape(polygons[1], <<>>)
                               ELSE MultiPolygonShape(polygons, <<>>)
                      area == Area(nid, IF c.hasName THEN c.name ELSE Name("Polygon ", Len(targets), ""),
                                   OrDefault(c.fill, targets[1].fill), OrDefault(c.stroke, targets[1].stroke),
                                   targets[1].strokeWidth, shape, NoId)
                      next == [RemoveAreas(p, Range(c.ids)) EXCEPT !.areas = Append(@, area)]
                  IN  Result(ensureUpdated(next, t), <<nid>>, "Convert to polygon", 1)

convertToPolygon(p, c, t, nid) ==
    IF Len(c.ids) < 1 THEN Unchanged(p)
    ELSE LET targets == Targets(p, c.ids)
             polygons == Flatten([i \in 1..Len(targets) |-> OutlineRings(targets[i].shape)])
         IN  IF targets = <<>> \/ polygons = <<>> THEN Unchanged(p)
             ELSE LET shape == IF Len(polygons) = 1 THEN PolygonShape(polygons[1], <<>>)
                               ELSE MultiPolygonShape(polygons, <<>>)
                      area == Area(nid, IF c.hasName THEN c.name ELSE Name("Polygon ", Len(targets), ""),
                                   OrDefault(c.fill, targets[1].fill), OrDefault(c.stroke, targets[1].stroke),
                                   targets[1].strokeWidth, shape, NoId)
                      next == [RemoveAreas(p, Range(c.ids)) EXCEPT !.areas = Append(@, area)]
                  IN  Result(ensureUpdated(next, t), <<nid>>, "Convert to polygon", 1)

createGroup(p, c, t, nid) ==
    Result(ensureUpdated(addGroup(p, nid, c.name, c.areaIds), t), c.areaIds, "Create group", 1)

removeGroup(p, c, t) ==
    ResultNoSelection(ensureUpdated(deleteGroup(p, c.id), t), "Delete group")

setGroupVisibility(p, c, t) ==
    ResultNoSelection(ensureUpdated(toggleGroupVisibility(p, c.id, c.visible), t), "Toggle group visibility")

divideArea(p, c, t, nid) ==
    IF ~HasArea(p, c.id) THEN Unchanged(p)
    ELSE LET partitions == Max2(2, c.partitions)
             baseArea == findArea(p, c.id)
             direction == IF c.direction # "" THEN c.direction
                          ELSE IF baseArea.shape.type = "rect" /\ baseArea.shape.width >= baseArea.shape.height
                               THEN "vertical" ELSE "horizontal"
             names == partitionNames(baseArea.name, partitions)
             bbox == shapeBoundingBox(baseArea.shape)
             slices == IF baseArea.shape.type = "rect"
                       THEN splitRectEvenly(baseArea.shape, partitions, direction)
                       ELSE splitRectEvenly(RectShape(bbox.x, bbox.y, bbox.width, bbox.height), partitions, direction)
             shapes == IF baseArea.shape.type = "rect" THEN slices
                       ELSE [i \in 1..Len(slices) |-> PolygonShape(RectCorners(slices[i]), <<>>)]
             created == [idx \in 1..Len(shapes) |->
                            Area(nid + idx - 1, names[idx], baseArea.fill, baseArea.stroke,
                                 baseArea.strokeWidth, shapes[idx], baseArea.id)]
             next == [RemoveAreas(p, {c.id}) EXCEPT !.areas = @ \o created]
         IN  Result(ensureUpdated(next, t), [idx \in 1..Len(created) |-> nid + idx - 1],
                    "Divide area", Len(created))

loadPlanCommand(p, c) == Result(c.plan, <<>>, "Load plan", 0)

setSelectionCommand(p, c) == Result(p, c.areaIds, "Select", 0)

MovedShape(shape, dx, dy, canvas) ==
    IF shape.type = "rect" THEN moveRect(shape, dx, dy, canvas)
    ELSE IF shape.type = "ellipse" THEN [shape EXCEPT !.cx = @ + dx, !.cy = @ + dy]
    ELSE TranslateShape(shape, dx, dy)

RECURSIVE MoveEach(_, _, _, _)
MoveEach(p, ids, dx, dy) ==
    IF ids = <<>> THEN p
    ELSE MoveEach(IF HasArea(p, Head(ids))
                  THEN SetShape(p, Head(ids), MovedShape(findArea(p, Head(ids)).shape, dx, dy, p.canvas))
                  ELSE p,
                  Tail(ids), dx, dy)

moveMany(p, c, t) ==
    Result(ensureUpdated(MoveEach(p, c.ids, c.dx, c.dy), t), c.ids, "Move areas", 0)

setAreaLabelOffset(p, c, t) ==
    IF ~HasArea(p, c.id) THEN Unchanged(p)
    ELSE Result(ensureUpdated([p EXCEPT !.areas[AreaIndex(p, c.id)].labelOffset = c.offset], t),
                <<c.id>>, "Move area label", 0)

setEdgeLabelOffset(p, c, t) ==
    IF ~HasArea(p, c.id) THEN Unchanged(p)
    ELSE LET old == findArea(p, c.id).edgeLabelOffsets
             \* { ...old, [edgeKey]: offset }: an existing key keeps its place
             new == IF \E i \in 1..Len(old) : old[i].key = c.edgeKey
                    THEN [i \in 1..Len(old) |-> IF old[i].key = c.edgeKey
                                                THEN [key |-> c.edgeKey, offset |-> c.offset] ELSE old[i]]
                    ELSE Append(old, [key |-> c.edgeKey, offset |-> c.offset])
         IN  Result(ensureUpdated([p EXCEPT !.areas[AreaIndex(p, c.id)].edgeLabelOffsets = new], t),
                    <<c.id>>, "Move edge label", 0)

setRadiusLabelOffset(p, c, t) ==
    IF ~HasArea(p, c.id) THEN Unchanged(p)
    ELSE Result(ensureUpdated([p EXCEPT !.areas[AreaIndex(p, c.id)].radiusLabelOffset = c.offset], t),
                <<c.id>>, "Move radius label", 0)

performCommand(p, c, t, nid) ==
    CASE c.type = "plan/create" -> createPlan(p, c, t)
      [] c.type = "plan/resize-boundary" -> updatePlanDimensions(p, c, t)
      [] c.type = "plan/set-viewport" -> setViewport(p, c, t)
      [] c.type = "plan/load" -> loadPlanCommand(p, c)
      [] c.type = "area/create" -> createArea(p, c, t, nid)
      [] c.type = "area/create-polygon" -> createPolygon(p, c, t, nid)
      [] c.type = "area/create-ellipse" -> createEllipse(p, c, t, nid)
      [] c.type = "area/paste" -> pasteAreas(p, c, t, nid)
      [] c.type = "area/move" -> moveArea(p, c, t)
      [] c.type = "area/move-polygon" -> movePolygonArea(p, c, t)
      [] c.type = "area/resize" -> resizeArea(p, c, t)
      [] c.type = "area/set-rect" -> setAreaRect(p, c, t)
      [] c.type = "area/set-ellipse" -> setEllipse(p, c, t)
      [] c.type = "area/set-rect-batch" -> setAreaRectBatch(p, c, t)
      [] c.type = "area/set-polygon" -> setPolygon(p, c, t)
      [] c.type = "area/set-multipolygon" -> setMultiPolygon(p, c, t)
      [] c.type = "area/rename" -> renameArea(p, c, t)
      [] c.type = "area/recolor" -> recolorArea(p, c, t)
      [] c.type = "area/delete" -> deleteArea(p, c, t)
      [] c.type = "area/mirror" -> mirrorArea(p, c, t)
      [] c.type = "area/subtract" -> subtractAreas(p, c, t)
      [] c.type = "area/divide" -> divideArea(p, c, t, nid)
      [] c.type = "area/merge" -> mergeAreas(p, c, t, nid)
      [] c.type = "group/create" -> createGroup(p, c, t, nid)
      [] c.type = "group/delete" -> removeGroup(p, c, t)
      [] c.type = "group/visibility" -> setGroupVisibility(p, c, t)
      [] c.type = "area/convert-to-polygon" -> convertToPolygon(p, c, t, nid)
      [] c.type = "area/move-multi" -> moveMany(p, c, t)
      [] c.type = "area/set-label-offset" -> setAreaLabelOffset(p, c, t)
      [] c.type = "area/set-edge-label-offset" -> setEdgeLabelOffset(p, c, t)
      [] c.type = "area/set-radius-label-offset" -> setRadiusLabelOffset(p, c, t)
      [] c.type = "selection/set" -> setSelectionCommand(p, c)
      [] OTHER -> Unchanged(p)

----------------------------------------------------------------------------
(* History manager (store/usePlanStore) *)

(* s.slice(-n) *)
(* a faulty slice: keeps the oldest n records instead of the newest *)
LastN_keepOldest(s, n) == IF Len(s) <= n THEN s ELSE SubSeq(s, 1, n)

LastN(s, n) == IF Len(s) <= n THEN s ELSE SubSeq(s, Len(s) - n + 1, Len(s))

(* a faulty pushHistory: the undo stack is not cut to its most recent 100 *)
pushHistory_noCap(h, record) ==
    [undo |-> Append(h.undo, record), redo |-> <<>>]

(* a faulty pushHistory: leaves the redo stack as it was *)
pushHistory_keepRedo(h, record) ==
    [undo |-> LastN(Append(h.undo, record), HistoryCap), redo |-> h.redo]

pushHistory(h, record) ==
    [undo |-> LastN(Append(h.undo, record), HistoryCap), redo |-> <<>>]

(* JSON.stringify(before) !== JSON.stringify(after) *)
Changed(before, after) == before # after

(* a faulty apply: records the command without comparing the plans *)
ApplyResult_alwaysRecord(st, c, t, res) ==
    [plan |-> res.plan,
     selection |-> IF res.hasSelection THEN res.selection ELSE st.selection,
     history |-> pushHistory(st.history,
                   [type |-> c.type, payload |-> c,
                    description |-> IF res.description # "" THEN res.description ELSE c.type,
                    before |-> clonePlan(st.plan), after |-> clonePlan(res.plan), timestamp |-> t])]

(* a faulty apply: a result without a selection empties the selection *)
ApplyResult_clearSelection(st, c, t, res) ==
    IF ~Changed(clonePlan(st.plan), res.plan)
    THEN [st EXCEPT !.selection = IF res.hasSelection THEN res.selection ELSE @]
    ELSE [plan |-> res.plan,
          selection |-> IF res.hasSelection THEN res.selection ELSE <<>>,
          history |-> pushHistory(st.history,
                        [type |-> c.type,
                         payload |-> c,
                         description |-> IF res.description # "" THEN res.description ELSE c.type,
                         before |-> clonePlan(st.plan),
                         after |-> clonePlan(res.plan),
                         timestamp |-> t])]

(* the state apply(command) returns for set(), called at clock value t,   *)
(* given the result res of performCommand on the current plan             *)
ApplyResult(st, c, t, res) ==
    IF ~Changed(clonePlan(st.plan), res.plan)
    THEN [st EXCEPT !.selection = IF res.hasSelection THEN res.selection ELSE @]
    ELSE [plan |-> res.plan,
          selection |-> IF res.hasSelection THEN res.selection ELSE st.selection,
          history |-> pushHistory(st.history,
                        [type |-> c.type,
                         payload |-> c,
                         description |-> IF res.description # "" THEN res.description ELSE c.type,
                         before |-> clonePlan(st.plan),
                         after |-> clonePlan(res.plan),
                         timestamp |-> t])]

StoreApply(st, c, t, nid) == ApplyResult(st, c, t, performCommand(st.plan, c, t, nid))

(* faulty undos: one restores the record's after snapshot, one puts the  *)
(* record at the back of the redo stack                                   *)
StoreUndo_restoreAfter(st) ==
    IF st.history.undo = <<>> THEN st
    ELSE [plan |-> clonePlan(Last(st.history.undo).after),
          selection |-> <<>>,
          history |-> [undo |-> Front(st.history.undo),
                       redo |-> <<Last(st.history.undo)>> \o st.history.redo]]

StoreUndo_redoAtBack(st) ==
    IF st.history.undo = <<>> THEN st
    ELSE [plan |-> clonePlan(Last(st.history.undo).before),
          selection |-> <<>>,
          history |-> [undo |-> Front(st.history.undo),
                       redo |-> Append(st.history.redo, Last(st.history.undo))]]

StoreUndo(st) ==
    IF st.history.undo = <<>> THEN st
    ELSE LET lastRec == Last(st.history.undo)
         IN  [plan |-> clonePlan(lastRec.before),
              selection |-> <<>>,
              history |-> [undo |-> Front(st.history.undo), redo |-> <<lastRec>> \o st.history.redo]]

(* a faulty redo: takes the last redo record instead of the first *)
StoreRedo_popLast(st) ==
    IF st.history.redo = <<>> THEN st
    ELSE [plan |-> clonePlan(Last(st.history.redo).after),
          selection |-> <<>>,
          history |-> [undo |-> Append(st.history.undo, Last(st.history.redo)),
                       redo |-> Front(st.history.redo)]]

StoreRedo(st) ==
    IF st.history.redo = <<>> THEN st
    ELSE LET nextRec == Head(st.history.redo)
         IN  [plan |-> clonePlan(nextRec.after),
              selection |-> <<>>,
              history |-> [undo |-> Append(st.history.undo, nextRec), redo |-> Tail(st.history.redo)]]

StoreLoadPlan(st, p) ==
    [plan |-> clonePlan(p), selection |-> <<>>, history |-> [undo |-> <<>>, redo |-> <<>>]]

Store == [plan |-> plan, selection |-> selection, history |-> history]

----------------------------------------------------------------------------
(* Inputs: plan documents a file can hold, and the commands a caller sends *)

Triangle(x, y, w) == << Point(x, y), Point(x + w, y), Point(x, y + w) >>

(* a plan holding one area of each shape variant and a group with a       *)
(* dangling reference                                                     *)
MixedPlan ==
    [createBlankPlan(96, 72, "m", "Mixed", 0) EXCEPT
        !.areas =
            << Area(1, Name("Area ", 1, ""), "#bfdbfe", "#1d4ed8", DefaultStrokeWidth,
                    RectShape(8, 8, 32, 24), NoId),
               Area(2, Name("Area ", 2, ""), "#fecaca", "#dc2626", DefaultStrokeWidth,
                    EllipseShape(64, 24, 12, 8), NoId),
               Area(3, Name("Area ", 3, ""), "#d8b4fe", "#6b21a8", DefaultStrokeWidth,
                    PolygonShape(RectCorners(RectShape(8, 40, 32, 24)), << Triangle(16, 48, 8) >>), NoId),
               Area(4, Name("Area ", 4, ""), "#d8b4fe", "#6b21a8", DefaultStrokeWidth,
                    MultiPolygonShape(<< Triangle(56, 40, 16), Triangle(80, 40, 8) >>, << <<>>, <<>> >>), NoId) >>,
        !.areaGroups = << [id |-> 5, name |-> "G", areaIds |-> <<1, 77>>, visible |-> TRUE] >>]

(* the seed plan after its boundary was dragged in to 2 x 2: both rects   *)
(* now reach beyond the canvas                                            *)
ShrunkPlan ==
    [seedPlan EXCEPT !.canvas.width = 16, !.canvas.height = 16]

(* a plan whose three areas have the same computed area, 768 *)
TiedPlan ==
    [createBlankPlan(96, 72, "m", "Tied", 0) EXCEPT
        !.areas =
            << Area(1, Name("Area ", 1, ""), "#bfdbfe", "#1d4ed8", DefaultStrokeWidth,
                    RectShape(8, 8, 32, 24), NoId),
               Area(2, Name("Area ", 2, ""), "#fecaca", "#dc2626", DefaultStrokeWidth,
                    RectShape(24, 16, 24, 32), NoId),
               Area(3, Name("Area ", 3, ""), "#d8b4fe", "#6b21a8", DefaultStrokeWidth,
                    PolygonShape(RectCorners(RectShape(48, 40, 32, 24)), <<>>), NoId) >>]

LoadablePlans == { MixedPlan, ShrunkPlan, TiedPlan }

PlanIds(p) == AreaIds(p) \cup { p.areaGroups[i].id : i \in 1..Len(p.areaGroups) }

MissingIds == { 99 }

ShapeTypes == { "rect", "ellipse", "polygon", "multipolygon" }

(* the first area of each shape variant the plan holds *)
FirstOfType(p, ty) ==
    LET is == { i \in 1..Len(p.areas) : p.areas[i].shape.type = ty }
    IN  IF is = {} THEN {} ELSE { p.areas[SetMin(is)].id }

Reps(p) == UNION { FirstOfType(p, ty) : ty \in ShapeTypes }

TargetIds(p) == Reps(p) \cup MissingIds

(* the plan's first areas, at most n of them *)
FirstAreas(p, n) == SubSeq(p.areas, 1, Min2(n, Len(p.areas)))

FirstIds(p, n) == [i \in 1..Min2(n, Len(p.areas)) |-> p.areas[i].id]

(* what the boolean engine may return: nothing, or one polygon with a hole *)
EngineResults ==
    { <<>>,
      << << << <<8, 8>>, <<40, 8>>, <<40, 32>>, <<8, 32>>, <<8, 8>> >>,
            << <<16, 16>>, <<24, 16>>, <<16, 24>>, <<16, 16>> >> >> >> }

(* a result of two components, and one whose only component is too short  *)
(* to be kept                                                             *)
MoreEngineResults ==
    { << << << <<8, 8>>, <<24, 8>>, <<8, 24>>, <<8, 8>> >> >>,
         << << <<32, 8>>, <<48, 8>>, <<32, 24>>, <<32, 8>> >> >> >>,
      << << << <<8, 8>>, <<24, 8>> >> >> >> }

DegenerateArea ==
    Area(88, Name("Sliver", NoIndex, ""), "#d8b4fe", "#6b21a8", DefaultStrokeWidth,
         PolygonShape(<< Point(0, 0), Point(8, 8) >>, <<>>), NoId)

DegenerateMulti ==
    Area(87, Name("Shard", NoIndex, ""), "#d8b4fe", "#6b21a8", DefaultStrokeWidth,
         MultiPolygonShape(<< Triangle(8, 8, 8), << Point(0, 0), Point(8, 8) >> >>, << <<>>, <<>> >>), NoId)

PlanCommands ==
    { [type |-> "plan/create", width |-> 40, height |-> 32, units |-> "m", name |-> "New Plan"],
      [type |-> "plan/create", width |-> 1, height |-> -8, units |-> "ft", name |-> ""],
      [type |-> "plan/resize-boundary", hasWidth |-> TRUE, width |-> 16, hasHeight |-> TRUE, height |-> 16],
      [type |-> "plan/resize-boundary", hasWidth |-> TRUE, width |-> 0, hasHeight |-> FALSE, height |-> 0],
      [type |-> "plan/set-viewport", hasZoom |-> TRUE, zoom |-> 0, hasPan |-> TRUE, pan |-> Point(8, 8)],
      [type |-> "plan/load", plan |-> MixedPlan],
      [type |-> "noop/unknown"] }

CreateCommands(p) ==
    { [type |-> "area/create", rect |-> RectShape(8, 8, 16, 8), partitions |-> 1, direction |-> "",
       fill |-> "", stroke |-> "", hasName |-> FALSE, name |-> Name("", NoIndex, ""), parentId |-> NoId],
      [type |-> "area/create", rect |-> RectShape(-8, 64, 200, 16), partitions |-> 2, direction |-> "",
       fill |-> "#ffffff", stroke |-> "", hasName |-> TRUE, name |-> Name("Wing", NoIndex, ""), parentId |-> NoId],
      [type |-> "area/create-polygon", points |-> Triangle(0, 0, 16), hasName |-> FALSE, name |-> Name("", NoIndex, "")],
      [type |-> "area/create-polygon", points |-> << Point(0, 0), Point(8, 8) >>, hasName |-> FALSE,
       name |-> Name("", NoIndex, "")],
      [type |-> "area/create-ellipse", cx |-> 16, cy |-> 16, rx |-> 8, ry |-> 8, hasName |-> FALSE,
       name |-> Name("", NoIndex, "")],
      [type |-> "area/create-ellipse", cx |-> 0, cy |-> 70, rx |-> 8, ry |-> 8, hasName |-> FALSE,
       name |-> Name("", NoIndex, "")],
      [type |-> "area/paste", areas |-> p.areas, dx |-> 8, dy |-> 8, nameSuffix |-> "copy"],
      [type |-> "area/paste", areas |-> FirstAreas(p, 2), dx |-> 200, dy |-> -200, nameSuffix |-> ""],
      [type |-> "area/paste", areas |-> << DegenerateArea >>, dx |-> 8, dy |-> 8, nameSuffix |-> ""],
      [type |-> "area/paste", areas |-> << DegenerateArea >> \o FirstAreas(p, 1) \o << DegenerateMulti >>,
       dx |-> 8, dy |-> 8, nameSuffix |-> ""] }

TargetCommands(p) ==
    UNION { { [type |-> "area/move", id |-> id, dx |-> 8, dy |-> 0],
              [type |-> "area/move", id |-> id, dx |-> -200, dy |-> 200],
              [type |-> "area/move-polygon", id |-> id, dx |-> 8, dy |-> 8],
              [type |-> "area/resize", id |-> id, handle |-> {"s", "e"}, dx |-> 200, dy |-> 200],
              [type |-> "area/resize", id |-> id, handle |-> {"n", "w"}, dx |-> 8, dy |-> 200],
              [type |-> "area/set-rect", id |-> id, rect |-> RectShape(-8, 8, 200, 16)],
              [type |-> "area/set-ellipse", id |-> id, ellipse |-> EllipseShape(16, 16, 8, 8)],
              [type |-> "area/set-polygon", id |-> id, points |-> Triangle(8, 8, 16)],
              [type |-> "area/set-multipolygon", id |-> id, polygons |-> << Triangle(8, 8, 16), Triangle(40, 8, 8) >>],
              [type |-> "area/set-polygon", id |-> id, points |-> << Point(0, 0), Point(8, 8) >>],
              [type |-> "area/set-multipolygon", id |-> id, polygons |-> << Triangle(8, 8, 16), << Point(0, 0) >> >>],
              [type |-> "area/rename", id |-> id, name |-> Name("Hall", NoIndex, "")],
              [type |-> "area/recolor", id |-> id, fill |-> "#000000"],
              [type |-> "area/delete", id |-> id],
              [type |-> "area/mirror", id |-> id, axis |-> "vertical"],
              [type |-> "area/mirror", id |-> id, axis |-> "horizontal"],
              [type |-> "area/divide", id |-> id, partitions |-> 2, direction |-> ""],
              [type |-> "area/divide", id |-> id, partitions |-> 4, direction |-> "vertical"],
              [type |-> "area/divide", id |-> id, partitions |-> 1, direction |-> "horizontal"],
              [type |-> "area/set-label-offset", id |-> id, offset |-> Offset(8, 8)],
              [type |-> "area/set-edge-label-offset", id |-> id, edgeKey |-> "e0", offset |-> Offset(8, 8)],
              [type |-> "area/set-radius-label-offset", id |-> id, offset |-> Offset(8, 8)] }
            : id \in TargetIds(p) }

MultiCommands(p) ==
    LET some == FirstIds(p, 2)
        mixed == FirstIds(p, 1) \o <<99>>
        missing == <<99, 98>>
    IN  UNION { { [type |-> "area/set-rect-batch",
                   updates |-> [i \in 1..Len(ids) |-> [id |-> ids[i], rect |-> RectShape(200, -8, 16, 200)]]],
                  [type |-> "area/move-multi", ids |-> ids, dx |-> 8, dy |-> 80],
                  [type |-> "area/convert-to-polygon", ids |-> ids, hasName |-> FALSE,
                   name |-> Name("", NoIndex, ""), fill |-> "", stroke |-> ""] }
                \cup { [type |-> "area/merge", ids |-> ids, hasName |-> FALSE, name |-> Name("", NoIndex, ""),
                        fill |-> "", stroke |-> "", engine |-> e] : e \in EngineResults }
                \cup { [type |-> "area/subtract", ids |-> ids, engine |-> e] : e \in EngineResults }
              : ids \in { some, mixed, missing } }
        \cup { [type |-> "area/move-multi", ids |-> [i \in 1..Len(p.areas) |-> p.areas[i].id], dx |-> 8, dy |-> 80] }
        \cup { [type |-> "area/convert-to-polygon", ids |-> ids, hasName |-> FALSE,
                name |-> Name("", NoIndex, ""), fill |-> "", stroke |-> ""]
               : ids \in { <<id>> : id \in Reps(p) } \cup { <<id, id>> : id \in FirstOfType(p, "rect") } }

(* merge and subtract with the ids in other orders, an id listed twice,   *)
(* and the other engine results                                           *)
BooleanCommands(p) ==
    LET n == Len(p.areas)
        orders == (IF n >= 2 THEN { <<p.areas[2].id, p.areas[1].id>> } ELSE {})
                    \cup (IF n >= 3 THEN { <<p.areas[3].id, p.areas[1].id, p.areas[2].id>> } ELSE {})
                    \cup (IF n >= 1 THEN { <<p.areas[1].id, p.areas[1].id>> } ELSE {})
    IN  UNION { { [type |-> "area/merge", ids |-> ids, hasName |-> TRUE, name |-> Name("Joined", NoIndex, ""),
                   fill |-> "#111111", stroke |-> "", engine |-> e],
                  [type |-> "area/subtract", ids |-> ids, engine |-> e] }
                : ids \in orders, e \in EngineResults }
        \cup UNION { { [type |-> "area/merge", ids |-> FirstIds(p, 2), hasName |-> FALSE,
                        name |-> Name("", NoIndex, ""), fill |-> "", stroke |-> "", engine |-> e],
                       [type |-> "area/subtract", ids |-> FirstIds(p, 2), engine |-> e] }
                     : e \in MoreEngineResults }

GroupCommands(p) ==
    { [type |-> "group/create", name |-> "Wing", areaIds |-> FirstIds(p, 1) \o <<99>>] }
    \cup UNION { { [type |-> "group/delete", id |-> id],
                   [type |-> "group/visibility", id |-> id, visible |-> FALSE] }
                 : id \in { p.areaGroups[i].id : i \in 1..Len(p.areaGroups) } \cup MissingIds }

SelectionCommands(p) ==
    { [type |-> "selection/set", areaIds |-> FirstIds(p, 1)] }

(* lengths are whole numbers of 1/8: a command that splits a rect is drawn *)
(* only when the sizes divided are whole multiples of the slice count     *)
ExactSplit(p, c) ==
    IF c.type = "area/divide" /\ HasArea(p, c.id)
    THEN LET box == shapeBoundingBox(findArea(p, c.id).shape)
         IN  box.width % Max2(2, c.partitions) = 0 /\ box.height % Max2(2, c.partitions) = 0
    ELSE IF c.type = "area/create"
    THEN LET rect == constrainRectToBounds(c.rect, p.canvas)
         IN  rect.width % Max2(1, c.partitions) = 0 /\ rect.height % Max2(1, c.partitions) = 0
    ELSE TRUE

AllCommands(p) ==
    { c \in PlanCommands \cup CreateCommands(p) \cup TargetCommands(p) \cup MultiCommands(p)
             \cup BooleanCommands(p) \cup GroupCommands(p) \cup SelectionCommands(p) : ExactSplit(p, c) }

(* the commands the history manager is exercised with *)
StoreCommands(p) ==
    { [type |-> "selection/set", areaIds |-> FirstIds(p, 1)],
      [type |-> "plan/set-viewport", hasZoom |-> TRUE, zoom |-> 20, hasPan |-> FALSE, pan |-> Point(0, 0)],
      [type |-> "plan/load", plan |-> MixedPlan],
      [type |-> "area/create-ellipse", cx |-> 16, cy |-> 16, rx |-> 8, ry |-> 8, hasName |-> FALSE,
       name |-> Name("", NoIndex, "")] }
    \cup UNION { { [type |-> "area/move", id |-> id, dx |-> 8, dy |-> 0],
                   [type |-> "area/delete", id |-> id] }
                 : id \in (IF p.areas = <<>> THEN {} ELSE { p.areas[1].id }) \cup MissingIds }

----------------------------------------------------------------------------
(* Bookkeeping of a round trip: a run of n effective commands c1..cn,     *)
(* then u calls of undo, then r calls of redo.  base is the plan before   *)
(* c1 and after the plan after cn.                                        *)

TripIdle == [phase |-> "idle", n |-> 0, u |-> 0, r |-> 0, base |-> seedPlan, after |-> seedPlan]

TripApply(tr, before, after) ==
    IF tr.phase = "apply"
    THEN [tr EXCEPT !.n = @ + 1, !.after = after]
    ELSE [phase |-> "apply", n |-> 1, u |-> 0, r |-> 0, base |-> before, after |-> after]

TripUndo(tr) ==
    IF tr.phase = "apply" \/ (tr.phase = "undo" /\ tr.u < tr.n)
    THEN [tr EXCEPT !.phase = "undo", !.u = @ + 1]
    ELSE TripIdle

TripRedo(tr) ==
    IF (tr.phase = "undo" /\ tr.u = tr.n) \/ (tr.phase = "redo" /\ tr.r < tr.n)
    THEN [tr EXCEPT !.phase = "redo", !.r = @ + 1]
    ELSE TripIdle

----------------------------------------------------------------------------
(* The store: state after construction, and one action per operation *)

NoCmd == [type |-> "none"]

NoCall == [fn |-> "none"]

NoMem == [heap |-> <<>>]

StoreInit ==
    /\ plan = seedPlan
    /\ selection = <<>>
    /\ history = [undo |-> <<>>, redo |-> <<>>]
    /\ clock = 0
    /\ nextId = 3
    /\ applied = 0
    /\ last = [op |-> "init", cmd |-> NoCmd, changed |-> FALSE]
    /\ trip = TripIdle

Init ==
    /\ StoreInit
    /\ calc = NoCall
    /\ mem = NoMem

(* apply(command), called when the clock reads t; res is the result of   *)
(* performCommand(state.plan, command)                                    *)
ApplyWith(c, t, res) ==
    /\ plan' = ApplyResult(Store, c, t, res).plan
    /\ selection' = ApplyResult(Store, c, t, res).selection
    /\ history' = ApplyResult(Store, c, t, res).history
    /\ nextId' = Max2(nextId + res.used, SetMax(PlanIds(res.plan) \cup {0}) + 1)
    /\ applied' = applied + 1
    /\ last' = [op |-> "apply", cmd |-> c, changed |-> Changed(plan, res.plan)]
    /\ trip' = IF Changed(plan, res.plan) THEN TripApply(trip, plan, res.plan) ELSE trip
    /\ UNCHANGED <<calc, mem>>

ApplyAt(c, t) == ApplyWith(c, t, performCommand(plan, c, t, nextId))

Apply ==
    /\ applied < MaxApplies
    /\ \E c \in StoreCommands(plan) : ApplyAt(c, clock)
    /\ UNCHANGED clock

Undo ==
    LET st == StoreUndo(Store)
    IN  /\ plan' = st.plan
        /\ selection' = st.selection
        /\ history' = st.history
        /\ last' = [op |-> "undo", cmd |-> NoCmd, changed |-> history.undo # <<>>]
        /\ trip' = TripUndo(trip)
        /\ UNCHANGED <<clock, nextId, applied, calc, mem>>

Redo ==
    LET st == StoreRedo(Store)
    IN  /\ plan' = st.plan
        /\ selection' = st.selection
        /\ history' = st.history
        /\ last' = [op |-> "redo", cmd |-> NoCmd, changed |-> history.redo # <<>>]
        /\ trip' = TripRedo(trip)
        /\ UNCHANGED <<clock, nextId, applied, calc, mem>>

LoadPlan ==
    \E p \in LoadablePlans :
        LET st == StoreLoadPlan(Store, p)
        IN  /\ plan' = st.plan
            /\ selection' = st.selection
            /\ history' = st.history
            /\ nextId' = Max2(nextId, SetMax(PlanIds(p) \cup {0}) + 1)
            /\ last' = [op |-> "loadPlan", cmd |-> [type |-> "none", plan |-> p], changed |-> TRUE]
            /\ trip' = TripIdle
            /\ UNCHANGED <<clock, applied, calc, mem>>

(* a millisecond passes *)
Tick ==
    /\ clock < MaxClock
    /\ clock' = clock + 1
    /\ last' = [op |-> "tick", cmd |-> NoCmd, changed |-> FALSE]
    /\ UNCHANGED <<plan, selection, history, nextId, applied, trip, calc, mem>>

Next == Apply \/ Undo \/ Redo \/ LoadPlan \/ Tick

Spec == Init /\ [][Next]_vars

(* The interpreter over every command kind, on the seed plan and on       *)
(* loaded plans                                                           *)
CmdApply ==
    /\ applied < MaxCmds
    /\ \E c \in AllCommands(plan) : ApplyAt(c, clock)
    /\ UNCHANGED clock

NextCmd == CmdApply \/ LoadPlan \/ Tick

SpecCmd == Init /\ [][NextCmd]_vars

(* A long session: a run of commands, a millisecond apart, then undo      *)
(* until the run is undone, then redo                                     *)
LongCommand(p, k) ==
    IF k % 3 = 0 THEN [type |-> "area/rename", id |-> p.areas[1].id, name |-> Name("Room ", k, "")]
    ELSE IF k % 3 = 1 THEN [type |-> "area/move", id |-> p.areas[1].id, dx |-> 8, dy |-> 0]
    ELSE [type |-> "plan/set-viewport", hasZoom |-> FALSE, zoom |-> 0, hasPan |-> TRUE, pan |-> Point(k, 0)]

LongApply ==
    /\ applied < MaxLong
    /\ trip.phase \in {"idle", "apply"}
    /\ ApplyAt(LongCommand(plan, applied), clock + 1)
    /\ clock' = clock + 1

LongUndo ==
    /\ trip.phase = "apply" \/ (trip.phase = "undo" /\ trip.u < trip.n)
    /\ Undo

LongRedo ==
    /\ (trip.phase = "undo" /\ trip.u = trip.n) \/ (trip.phase = "redo" /\ trip.r < trip.n)
    /\ Redo

NextLong == LongApply \/ LongUndo \/ LongRedo

SpecLong == Init /\ [][NextLong]_vars

----------------------------------------------------------------------------
(* The history manager *)

EmptyHistory == [undo |-> <<>>, redo |-> <<>>]

(* C1, as stated: after n effective commands, n calls of undo give back   *)
(* the plan that existed before the first command, and n calls of redo    *)
(* after that give back the plan that existed after the last command,     *)
(* for any n.                                                             *)
C1_RoundTrip ==
    /\ (trip.phase = "undo" /\ trip.u = trip.n) => plan = trip.base
    /\ (trip.phase = "redo" /\ trip.r = trip.n) => plan = trip.after

(* C1, amended: the round trip holds for every run of at most HistoryCap  *)
(* effective commands; of a longer run only the last HistoryCap commands  *)
(* can be undone.                                                         *)
C1_RoundTripWithinCap ==
    trip.n <= HistoryCap =>
        /\ (trip.phase = "undo" /\ trip.u = trip.n) => plan = trip.base
        /\ (trip.phase = "redo" /\ trip.r = trip.n) => plan = trip.after

C1_Witness ==
    /\ trip.phase = "redo"
    /\ trip.n = HistoryCap
    /\ trip.r = trip.n
    /\ plan = trip.after
    /\ plan # trip.base
    /\ history.redo = <<>>

(* C2: after k effective commands and no undo or redo the undo stack      *)
(* holds min(k, HistoryCap) records: those of the most recent commands,   *)
(* oldest first (in a long session command j is applied at time j), each  *)
(* record starting from the plan the one before it produced.              *)
C2_HistoryBound ==
    trip.phase \in {"idle", "apply"} =>
        LET len == Len(history.undo)
        IN  /\ trip.n = applied
            /\ len = Min2(applied, HistoryCap)
            /\ \A i \in 1..len :
                  /\ history.undo[i].timestamp = applied - len + i
                  /\ history.undo[i].type = LongCommand(history.undo[i].before, applied - len + i - 1).type
                  /\ history.undo[i].after = IF i < len THEN history.undo[i + 1].before ELSE plan

C2_Witness ==
    /\ trip.phase = "apply"
    /\ applied = HistoryCap + 3
    /\ Len(history.undo) = HistoryCap
    /\ history.undo[1].timestamp = 4
    /\ history.undo[HistoryCap].timestamp = HistoryCap + 3

(* C3: an apply whose command leaves the plan deep-equal pushes no record *)
(* and changes neither the plan nor the undo stack nor the redo stack;    *)
(* the selection becomes the one the command returned, if it returned one *)
C3_SuppressedNoOp ==
    [][(last'.op = "apply" /\ ~last'.changed) =>
          LET res == performCommand(plan, last'.cmd, clock, nextId)
          IN  /\ plan' = plan
              /\ history' = history
              /\ selection' = IF res.hasSelection THEN res.selection ELSE selection]_vars

C3_Witness ==
    /\ last.op = "apply"
    /\ ~last.changed
    /\ last.cmd.type = "selection/set"
    /\ selection = last.cmd.areaIds
    /\ selection # <<>>
    /\ Len(history.undo) = 1
    /\ plan = history.undo[1].after

(* C4: an apply whose command changes the plan appends exactly one record *)
(* (before = the plan prior to the command, after = the new plan) and     *)
(* empties the redo stack; the redo stack grows only by undo.             *)
C4_EffectiveApply ==
    [][/\ (last'.op = "apply" /\ last'.changed) =>
            /\ history'.undo # <<>>
            /\ Front(history'.undo) = IF Len(history.undo) < HistoryCap
                                      THEN history.undo ELSE Tail(history.undo)
            /\ Last(history'.undo).before = plan
            /\ Last(history'.undo).after = plan'
            /\ Last(history'.undo).payload = last'.cmd
            /\ plan' # plan
            /\ history'.redo = <<>>
       /\ Len(history'.redo) > Len(history.redo) => last'.op = "undo"
       /\ (last'.op = "redo" /\ history.redo # <<>>) => Len(history'.redo) = Len(history.redo) - 1]_vars

C4_Witness ==
    /\ last.op = "apply"
    /\ last.changed
    /\ Len(history.undo) = 2
    /\ history.redo = <<>>
    /\ history.undo[2].before = history.undo[1].after
    /\ history.undo[2].after = plan
    /\ history.undo[2].payload = last.cmd

(* C5: undo with a non-empty undo stack removes its last record, restores *)
(* that record's before snapshot, puts the record at the front of the     *)
(* redo stack and empties the selection; with an empty undo stack it      *)
(* changes nothing.                                                       *)
C5_Undo ==
    [][last'.op = "undo" =>
          IF history.undo # <<>>
          THEN /\ history'.undo = Front(history.undo)
               /\ plan' = Last(history.undo).before
               /\ history'.redo = <<Last(history.undo)>> \o history.redo
               /\ selection' = <<>>
          ELSE /\ plan' = plan
               /\ selection' = selection
               /\ history' = history]_vars

C5_Witness ==
    /\ last.op = "undo"
    /\ last.changed
    /\ history.undo = <<>>
    /\ Len(history.redo) = 2
    /\ history.redo[1] # history.redo[2]
    /\ plan = history.redo[1].before
    /\ selection = <<>>

(* C6: redo with a non-empty redo stack removes its first record,         *)
(* restores that record's after snapshot, appends the record to the undo  *)
(* stack and empties the selection; with an empty redo stack it changes   *)
(* nothing.                                                               *)
C6_Redo ==
    [][last'.op = "redo" =>
          IF history.redo # <<>>
          THEN /\ history'.redo = Tail(history.redo)
               /\ plan' = Head(history.redo).after
               /\ history'.undo = Append(history.undo, Head(history.redo))
               /\ selection' = <<>>
          ELSE /\ plan' = plan
               /\ selection' = selection
               /\ history' = history]_vars

C6_Witness ==
    /\ last.op = "redo"
    /\ last.changed
    /\ Len(history.undo) = 1
    /\ Len(history.redo) = 1
    /\ history.undo[1] # history.redo[1]
    /\ plan = history.undo[1].after
    /\ selection = <<>>

(* C7, as stated: every load operation (the store's loadPlan and the      *)
(* plan/load command) makes the loaded plan current, empties the          *)
(* selection and leaves both stacks empty.                                *)
C7_LoadClearsHistory ==
    [][(last'.op = "loadPlan" \/ (last'.op = "apply" /\ last'.cmd.type = "plan/load")) =>
          /\ plan' = last'.cmd.plan
          /\ selection' = <<>>
          /\ history' = EmptyHistory]_vars

----------------------------------------------------------------------------
(* The command interpreter *)

SingleTargetKinds ==
    { "area/move", "area/move-polygon", "area/resize", "area/set-rect", "area/set-polygon",
      "area/set-multipolygon", "area/set-ellipse", "area/rename", "area/recolor", "area/mirror",
      "area/delete", "area/divide" }

ManyTargetKinds == { "area/move-multi", "area/merge", "area/subtract", "area/convert-to-polygon" }

GroupTargetKinds == { "group/delete", "group/visibility" }

GroupIds(p) == { p.areaGroups[i].id : i \in 1..Len(p.areaGroups) }

(* the command names a target and the plan holds no area (or group) of    *)
(* any id it names                                                        *)
MissesTarget(p, c) ==
    \/ c.type \in SingleTargetKinds /\ ~HasArea(p, c.id)
    \/ c.type \in ManyTargetKinds /\ \A i \in 1..Len(c.ids) : ~HasArea(p, c.ids[i])
    \/ c.type = "area/set-rect-batch" /\ \A i \in 1..Len(c.updates) : ~HasArea(p, c.updates[i].id)
    \/ c.type \in GroupTargetKinds /\ c.id \notin GroupIds(p)

(* C8, as stated: a command naming a target id that the plan does not     *)
(* hold returns a plan deep-equal to its input, and nothing is recorded.  *)
C8_InvalidIdempotent ==
    [][(last'.op = "apply" /\ MissesTarget(plan, last'.cmd)) =>
          /\ performCommand(plan, last'.cmd, clock, nextId).plan = plan
          /\ plan' = plan
          /\ history' = history]_vars

ShapeTypeOf(p, id) == findArea(p, id).shape.type

(* the target exists and its shape variant is not the one the command     *)
(* kind is for                                                            *)
Mismatched(p, c) ==
    /\ c.type \in SingleTargetKinds
    /\ HasArea(p, c.id)
    /\ \/ c.type \in {"area/move", "area/resize", "area/set-rect"} /\ ShapeTypeOf(p, c.id) # "rect"
       \/ c.type = "area/set-polygon" /\ ShapeTypeOf(p, c.id) # "polygon"
       \/ c.type = "area/set-multipolygon" /\ ShapeTypeOf(p, c.id) # "multipolygon"
       \/ c.type = "area/set-ellipse" /\ ShapeTypeOf(p, c.id) # "ellipse"
       \/ c.type = "area/move-polygon" /\ ShapeTypeOf(p, c.id) \in {"rect", "ellipse"}

(* C9, as stated: a command on a target of another shape variant returns  *)
(* the unchanged plan.                                                    *)
C9_MismatchNoOp ==
    [][(last'.op = "apply" /\ Mismatched(plan, last'.cmd)) =>
          /\ plan' = plan
          /\ history' = history]_vars

RectToPolygon(p, c) == c.type = "area/set-polygon" /\ HasArea(p, c.id) /\ ShapeTypeOf(p, c.id) = "rect"

(* C9, amended: so it is for every listed mismatch but area/set-polygon   *)
(* on a rect, which turns the rect into a polygon of the given points,    *)
(* without holes, changing nothing else of the area or of other areas.    *)
C9_MismatchNoOpButRect ==
    [][/\ (last'.op = "apply" /\ Mismatched(plan, last'.cmd) /\ ~RectToPolygon(plan, last'.cmd)) =>
            /\ plan' = plan
            /\ history' = history
       /\ (last'.op = "apply" /\ RectToPolygon(plan, last'.cmd)) =>
            /\ plan'.areas = [plan.areas EXCEPT ![AreaIndex(plan, last'.cmd.id)].shape =
                                                   PolygonShape(last'.cmd.points, <<>>)]
            /\ plan'.canvas = plan.canvas
            /\ selection' = <<last'.cmd.id>>]_vars

C9_Witness ==
    /\ last.op = "apply"
    /\ last.cmd.type = "area/set-ellipse"
    /\ HasArea(plan, last.cmd.id)
    /\ ShapeTypeOf(plan, last.cmd.id) = "multipolygon"
    /\ ~last.changed
    /\ plan = MixedPlan

BoxInside(box, canvas) ==
    /\ 0 <= box.x
    /\ box.x + box.width <= canvas.width
    /\ 0 <= box.y
    /\ box.y + box.height <= canvas.height

ClampingKinds ==
    { "area/create", "area/create-ellipse", "area/paste", "area/move", "area/move-multi",
      "area/resize", "area/set-rect", "area/set-rect-batch" }

(* the areas of after that the command created or changed *)
Touched(before, after) == Range(after.areas) \ Range(before.areas)

(* C10, as stated: every rect or ellipse that a creating or moving        *)
(* command created or moved lies inside the canvas.                       *)
C10_ClampInvariant ==
    [][(last'.op = "apply" /\ last'.cmd.type \in ClampingKinds) =>
          \A a \in Touched(plan, plan') :
              a.shape.type \in {"rect", "ellipse"} => BoxInside(shapeBoundingBox(a.shape), plan'.canvas)]_vars

(* every polygon has at least 3 points and every ring of every            *)
(* multipolygon has at least 3 points                                     *)
PolygonsValid(p) ==
    \A i \in 1..Len(p.areas) :
        LET shape == p.areas[i].shape
        IN  /\ shape.type = "polygon" => Len(shape.points) >= 3
            /\ shape.type = "multipolygon" =>
                  \A k \in 1..Len(shape.polygons) : Len(shape.polygons[k]) >= 3

(* the edit asks for a polygon, or a ring of a multipolygon, of fewer     *)
(* than 3 points                                                          *)
DegenerateEdit(c) ==
    \/ c.type \in {"area/create-polygon", "area/set-polygon"} /\ Len(c.points) < 3
    \/ c.type = "area/set-multipolygon" /\ \E k \in 1..Len(c.polygons) : Len(c.polygons[k]) < 3

(* C11, as stated: a command applied to a plan whose polygons all have    *)
(* at least 3 points (and every ring of every multipolygon at least 3)    *)
(* gives such a plan again, and an edit asking for fewer than 3 points    *)
(* leaves the plan as it was.                                             *)
C11_PolygonSize ==
    [][last'.op = "apply" =>
          /\ PolygonsValid(plan) => PolygonsValid(plan')
          /\ DegenerateEdit(last'.cmd) => plan' = plan]_vars

----------------------------------------------------------------------------
(* Editing sessions: every command kind together with undo and redo *)

NextEdit == CmdApply \/ Undo \/ Redo \/ LoadPlan

SpecEdit == Init /\ [][NextEdit]_vars

UniqueIds(p) ==
    \A i, j \in 1..Len(p.areas) : i # j => p.areas[i].id # p.areas[j].id

IdsOf(p) == [i \in 1..Len(p.areas) |-> p.areas[i].id]

EditKinds ==
    { "area/rename", "area/recolor", "area/move", "area/move-polygon", "area/resize", "area/set-rect",
      "area/set-polygon", "area/set-multipolygon", "area/set-ellipse", "area/mirror" }

(* area/subtract has a subject and the difference is not empty *)
SubtractKeeps(p, c) ==
    /\ c.type = "area/subtract"
    /\ Len(Targets(p, c.ids)) >= 2
    /\ EnginePolygons(c.engine) # <<>>

(* C12: after every step (command, undo, redo) no two areas of the plan   *)
(* share an id; a command that edits an area leaves the ids of the plan's *)
(* areas as they were, and a subtract with a non-empty result keeps its   *)
(* subject's id in the plan.                                              *)
C12_AreaIdentity ==
    [][/\ UniqueIds(plan')
       /\ (last'.op = "apply" /\ last'.cmd.type \in EditKinds) => IdsOf(plan') = IdsOf(plan)
       /\ (last'.op = "apply" /\ SubtractKeeps(plan, last'.cmd)) =>
             /\ selection' \in { <<id>> : id \in AreaIds(plan) \cap AreaIds(plan') }
             /\ AreaIds(plan') \subseteq AreaIds(plan)]_vars

C12_Witness ==
    /\ last.op = "apply"
    /\ last.cmd.type = "area/paste"
    /\ last.changed
    /\ Len(plan.areas) = 8
    /\ UniqueIds(plan)
    /\ history.undo # <<>>

(* C13, as stated: after any command the canvas is at least MIN_SIZE wide *)
(* and high and its zoom is at least 0.1.                                 *)
C13_CanvasInvariant ==
    [][last'.op = "apply" =>
          /\ plan'.canvas.width >= MIN_SIZE
          /\ plan'.canvas.height >= MIN_SIZE
          /\ plan'.canvas.zoom >= MinZoom]_vars

----------------------------------------------------------------------------
(* Divide *)

(* box is the i-th of n equal slices of whole, cut along direction *)
IsSlice(box, whole, i, n, direction) ==
    IF direction = "vertical"
    THEN /\ n * box.width = whole.width
         /\ n * (box.x - whole.x) = (i - 1) * whole.width
         /\ box.y = whole.y
         /\ box.height = whole.height
    ELSE /\ n * box.height = whole.height
         /\ n * (box.y - whole.y) = (i - 1) * whole.height
         /\ box.x = whole.x
         /\ box.width = whole.width

(* the direction area/divide cuts along *)
DivideDirection(c, shape) ==
    IF c.direction # "" THEN c.direction
    ELSE IF shape.type = "rect" /\ shape.width >= shape.height THEN "vertical" ELSE "horizontal"

(* C14: area/divide on an existing area removes it and appends N =        *)
(* max(2, partitions) new areas whose parentId is the removed area's id   *)
(* and whose ids are the selection; the i-th part of a rect is the i-th   *)
(* of N equal slices of the rect, the i-th part of another shape is the   *)
(* 4-point polygon around the i-th of N equal slices of its bounding box. *)
C14_Divide ==
    [][(last'.op = "apply" /\ last'.cmd.type = "area/divide" /\ HasArea(plan, last'.cmd.id)) =>
          LET c == last'.cmd
              n == Max2(2, c.partitions)
              base == findArea(plan, c.id)
              kept == RemoveAreas(plan, {c.id}).areas
              parts == SubSeq(plan'.areas, Len(kept) + 1, Len(plan'.areas))
              direction == DivideDirection(c, base.shape)
          IN  /\ Len(kept) = Len(plan.areas) - 1
              /\ SubSeq(plan'.areas, 1, Len(kept)) = kept
              /\ Len(parts) = n
              /\ selection' = [i \in 1..n |-> parts[i].id]
              /\ \A i \in 1..n :
                    /\ parts[i].parentId = c.id
                    /\ parts[i].id \notin AreaIds(plan)
                    /\ \A j \in 1..n : i # j => parts[i].id # parts[j].id
                    /\ IsSlice(shapeBoundingBox(parts[i].shape), shapeBoundingBox(base.shape), i, n, direction)
                    /\ IF base.shape.type = "rect"
                       THEN parts[i].shape.type = "rect"
                       ELSE /\ parts[i].shape.type = "polygon"
                            /\ parts[i].shape.holes = <<>>
                            /\ parts[i].shape.points = RectCorners(shapeBoundingBox(parts[i].shape))]_vars

C14_Witness ==
    /\ last.op = "apply"
    /\ last.cmd.type = "area/divide"
    /\ last.cmd.partitions = 4
    /\ Len(plan.areas) = 7
    /\ plan.areas[4].shape = PolygonShape(RectCorners(RectShape(52, 16, 6, 16)), <<>>)
    /\ plan.areas[7].shape = PolygonShape(RectCorners(RectShape(70, 16, 6, 16)), <<>>)
    /\ plan.areas[7].parentId = 2

----------------------------------------------------------------------------
(* Subtract and merge *)

(* 226 times the area of a shape: |width * height| for a rect, the        *)
(* shoelace area less the holes' (not below 0) for a polygon              *)
ComputedArea(shape) ==
    IF shape.type = "rect"
    THEN 226 * (IF shape.width * shape.height < 0 THEN -(shape.width * shape.height)
                ELSE shape.width * shape.height)
    ELSE IF shape.type = "polygon"
    THEN LET outer == Shoelace(shape.points)
             inner == SeqSum([h \in 1..Len(shape.holes) |-> Shoelace(shape.holes[h])])
         IN  IF outer > inner THEN 113 * (outer - inner) ELSE 0
    ELSE shapeArea(shape)

(* the areas list without those listed in ids, keep excepted *)
AreasWithout(p, ids, keep) ==
    LET stays(a) == a.id \in keep \/ \A k \in 1..Len(ids) : ids[k] # a.id
    IN  SelectSeq(p.areas, stays)

(* the listed ids that name an area of the plan, in the order listed *)
ListedPresent(p, ids) ==
    LET present(id) == HasArea(p, id)
    IN  SelectSeq(ids, present)

(* the first listed area none of the listed areas is larger than *)
ExpectedSubject(p, ids) ==
    LET listed == ListedPresent(p, ids)
        largest(i) == \A k \in 1..Len(listed) :
                          ComputedArea(findArea(p, listed[k]).shape) <= ComputedArea(findArea(p, listed[i]).shape)
    IN  listed[SetMin({ i \in 1..Len(listed) : largest(i) })]

SubtractActs(p, c) == c.type = "area/subtract" /\ Len(c.ids) >= 2 /\ Len(ListedPresent(p, c.ids)) >= 2

(* C15: the subject of area/subtract, the area that survives a non-empty  *)
(* difference, is the listed target of largest computed area, the first   *)
(* listed of them when several share it; the other targets are removed.   *)
C15_SubtractSubject ==
    [][(last'.op = "apply" /\ SubtractActs(plan, last'.cmd) /\ EnginePolygons(last'.cmd.engine) # <<>>) =>
          LET subject == ExpectedSubject(plan, last'.cmd.ids)
          IN  /\ selection' = <<subject>>
              /\ HasArea(plan', subject)
              /\ \A k \in 1..Len(last'.cmd.ids) :
                    last'.cmd.ids[k] # subject => ~HasArea(plan', last'.cmd.ids[k])]_vars

C15_Witness ==
    /\ last.op = "apply"
    /\ last.cmd.type = "area/subtract"
    /\ last.cmd.ids = <<3, 1, 2>>
    /\ plan.meta.name = "Tied"
    /\ selection = <<3>>
    /\ AreaIds(plan) = {3}

(* the shape made of the components of a boolean result: a polygon for   *)
(* one component, a multipolygon for several; each ring without its       *)
(* closing point, the first ring of a component its outline, the others   *)
(* its holes                                                              *)
OpenRing(ring) ==
    [i \in 1..(Len(ring) - 1) |-> Point(ring[i][1], ring[i][2])]

ComponentHoles(poly) == [h \in 1..(Len(poly) - 1) |-> OpenRing(poly[h + 1])]

ResultShape(engine) ==
    IF Len(engine) = 1
    THEN PolygonShape(OpenRing(engine[1][1]), ComponentHoles(engine[1]))
    ELSE MultiPolygonShape([i \in 1..Len(engine) |-> OpenRing(engine[i][1])],
                           [i \in 1..Len(engine) |-> ComponentHoles(engine[i])])

(* the engine's result has a component, each with an outline of at least  *)
(* 3 entries                                                              *)
NonEmptyResult(engine) ==
    /\ engine # <<>>
    /\ \A i \in 1..Len(engine) : Len(engine[i][1]) >= 3

(* C16: when the difference is empty area/subtract removes every listed   *)
(* target and empties the selection; otherwise the subject keeps its id   *)
(* and its other fields and takes the difference as its shape, the other  *)
(* listed targets are removed, the unlisted areas stay as they are and    *)
(* the selection is the subject's id.                                     *)
C16_SubtractResult ==
    [][(last'.op = "apply" /\ SubtractActs(plan, last'.cmd)) =>
          LET c == last'.cmd
              subject == ExpectedSubject(plan, c.ids)
          IN  IF c.engine = <<>>
              THEN /\ plan'.areas = AreasWithout(plan, c.ids, {})
                   /\ selection' = <<>>
              ELSE NonEmptyResult(c.engine) =>
                   /\ plan'.areas =
                         [i \in 1..Len(AreasWithout(plan, c.ids, {subject})) |->
                             LET a == AreasWithout(plan, c.ids, {subject})[i]
                             IN  IF a.id = subject THEN [a EXCEPT !.shape = ResultShape(c.engine)] ELSE a]
                   /\ selection' = <<subject>>]_vars

C16_Witness ==
    /\ last.op = "apply"
    /\ last.cmd.type = "area/subtract"
    /\ last.cmd.ids = <<1, 2>>
    /\ Len(last.cmd.engine) = 2
    /\ plan.meta.name = "Mixed"
    /\ IdsOf(plan) = <<1, 3, 4>>
    /\ plan.areas[1].shape.type = "multipolygon"
    /\ selection = <<1>>

(* the areas of the plan that the ids name *)
ListedAreas(p, ids) == { ids[k] : k \in 1..Len(ids) } \cap AreaIds(p)

(* C17, as stated: area/merge returns the unchanged plan unless its ids    *)
(* name at least two distinct areas of the plan and the union is not      *)
(* empty; otherwise it removes the listed areas, appends one new area     *)
(* with a fresh id and the union as its shape (a polygon for one          *)
(* component, a multipolygon for several), leaves the unlisted areas as   *)
(* they are and selects the new area.                                     *)
C17_Merge ==
    [][(last'.op = "apply" /\ last'.cmd.type = "area/merge") =>
          LET c == last'.cmd
              kept == AreasWithout(plan, c.ids, {})
          IN  /\ (Cardinality(ListedAreas(plan, c.ids)) < 2 \/ c.engine = <<>>) => plan' = plan
              /\ (Cardinality(ListedAreas(plan, c.ids)) >= 2 /\ NonEmptyResult(c.engine)) =>
                    /\ Len(plan'.areas) = Len(kept) + 1
                    /\ SubSeq(plan'.areas, 1, Len(kept)) = kept
                    /\ Last(plan'.areas).id \notin AreaIds(plan)
                    /\ Last(plan'.areas).shape = ResultShape(c.engine)
                    /\ Last(plan'.areas).shape.type = IF Len(c.engine) = 1 THEN "polygon" ELSE "multipolygon"
                    /\ selection' = << Last(plan'.areas).id >>]_vars

(***************************************************************************)
(* The geometry primitives snapRect, snapAngle and splitRectEvenly, called *)
(* on their own.  Lengths are in units of 1/8, angles in whole degrees.    *)
(***************************************************************************)

(* Math.round(value / grid) * grid; Math.round(v) is floor(v + 1/2) *)
snapValue(value, grid) == ((2 * value + grid) \div (2 * grid)) * grid

(* the forEach of snapEdge from edge i on; minDelta5 is five times minDelta, *)
(* so that the initial snapTo * 0.6 is the integer 3 * snapTo                *)
RECURSIVE snapEdge(_, _, _, _, _)
snapEdge(edges, val, i, best, minDelta5) ==
    IF i > Len(edges) THEN best
    ELSE LET d == Abs(edges[i] - val)
         IN  IF 5 * d < minDelta5
             THEN snapEdge(edges, val, i + 1, edges[i], 5 * d)
             ELSE snapEdge(edges, val, i + 1, best, minDelta5)

(* faulty variant: the far edges are not snapped to the neighbor edges *)
snapRect_nearOnly(rect, snapTo, neighborEdges) ==
    LET sx == snapEdge(neighborEdges, snapValue(rect.x, snapTo), 1, snapValue(rect.x, snapTo), 3 * snapTo)
        sy == snapEdge(neighborEdges, snapValue(rect.y, snapTo), 1, snapValue(rect.y, snapTo), 3 * snapTo)
    IN  [rect EXCEPT !.x = sx, !.y = sy,
                     !.width = Max2(snapValue(rect.width, snapTo), MIN_SIZE),
                     !.height = Max2(snapValue(rect.height, snapTo), MIN_SIZE)]

snapRect(rect, snapTo, neighborEdges) ==
    LET xSnap == snapValue(rect.x, snapTo)
        ySnap == snapValue(rect.y, snapTo)
        wSnap == snapValue(rect.width, snapTo)
        hSnap == snapValue(rect.height, snapTo)
        sx == snapEdge(neighborEdges, xSnap, 1, xSnap, 3 * snapTo)
        sy == snapEdge(neighborEdges, ySnap, 1, ySnap, 3 * snapTo)
        w == snapEdge(neighborEdges, sx + wSnap, 1, sx + wSnap, 3 * snapTo) - sx
        h == snapEdge(neighborEdges, sy + hSnap, 1, sy + hSnap, 3 * snapTo) - sy
    IN  [rect EXCEPT !.x = sx, !.y = sy, !.width = Max2(w, MIN_SIZE), !.height = Max2(h, MIN_SIZE)]

(* the remainder operator of the source language: the sign of the dividend *)
Rem(a, n) == IF a >= 0 THEN a % n ELSE -((-a) % n)

snaps == << 0, 15, 30, 45, 90, 135, 180, 225, 270, 315 >>

(* the forEach of snapAngle from snap i on *)
RECURSIVE SnapFrom(_, _, _, _)
SnapFrom(angle, i, best, bestDelta) ==
    IF i > Len(snaps) THEN best
    ELSE LET delta == Abs(Rem(angle - snaps[i] + 540, 360) - 180)
         IN  IF delta < bestDelta
             THEN SnapFrom(angle, i + 1, snaps[i], delta)
             ELSE SnapFrom(angle, i + 1, best, bestDelta)

(* faulty variant: the distance does not wrap around at 360 *)
snapAngle_linear(angle, enabled) ==
    IF ~enabled THEN angle
    ELSE snaps[CHOOSE k \in 1..Len(snaps) :
                   \A j \in 1..Len(snaps) : Abs(angle - snaps[k]) <= Abs(angle - snaps[j])]

snapAngle(angle, enabled) ==
    IF ~enabled THEN angle ELSE SnapFrom(angle, 1, angle, 360)

(* ---- inputs of the calls ---- *)

MaxGeo == 12       \* rect coordinates and sizes range over 0..MaxGeo
MaxAngle == 360    \* angles range over -MaxAngle/2..MaxAngle
MaxCount == 4      \* slice counts range over 1..MaxCount
MaxSlice == 3      \* split rects are up to MaxSlice * count wide and high

SnapSteps == { 2, 4, 8 }

EdgeValues == { 1, 6, 10, 14 }

EdgeLists ==
    { <<>> } \cup { << e >> : e \in EdgeValues } \cup { << e, f >> : e \in EdgeValues, f \in EdgeValues }

SnapRectCalls ==
    { [fn |-> "snapRect", rect |-> RectShape(rx, ry, w, h), snapTo |-> g, edges |-> es,
       done |-> FALSE, result |-> <<>>] :
      rx \in 0..MaxGeo, ry \in { 0, 5 }, w \in 0..MaxGeo, h \in { 3, 8 },
      g \in SnapSteps, es \in EdgeLists }

SnapAngleCalls ==
    { [fn |-> "snapAngle", angle |-> a, enabled |-> en, done |-> FALSE, result |-> <<>>] :
      a \in (-(MaxAngle \div 2))..MaxAngle, en \in BOOLEAN }

SplitCalls ==
    { [fn |-> "splitRectEvenly", rect |-> RectShape(rx, ry, n * kw, n * kh), count |-> n,
       direction |-> dir, done |-> FALSE, result |-> <<>>] :
      rx \in { 0, 3 }, ry \in { 0, 5 }, kw \in 1..MaxSlice, kh \in 1..MaxSlice,
      n \in 1..MaxCount, dir \in { "vertical", "horizontal" } }

InitGeo ==
    /\ StoreInit
    /\ calc \in SnapRectCalls \cup SnapAngleCalls \cup SplitCalls
    /\ mem = NoMem

StoreIdle == UNCHANGED <<plan, selection, history, clock, nextId, applied, last, trip, mem>>

SnapRect ==
    /\ calc.fn = "snapRect" /\ ~calc.done
    /\ calc' = [calc EXCEPT !.done = TRUE, !.result = snapRect(calc.rect, calc.snapTo, calc.edges)]
    /\ StoreIdle

SnapAngle ==
    /\ calc.fn = "snapAngle" /\ ~calc.done
    /\ calc' = [calc EXCEPT !.done = TRUE, !.result = snapAngle(calc.angle, calc.enabled)]
    /\ StoreIdle

SplitRect ==
    /\ calc.fn = "splitRectEvenly" /\ ~calc.done
    /\ calc' = [calc EXCEPT !.done = TRUE, !.result = splitRectEvenly(calc.rect, calc.count, calc.direction)]
    /\ StoreIdle

NextGeo == SnapRect \/ SnapAngle \/ SplitRect

SpecGeo == InitGeo /\ [][NextGeo]_vars

Returned(fn) == calc.fn = fn /\ calc.done

(* the far edge after grid snapping: the returned x plus the rounded width *)
GridFar == calc.result.x + snapValue(calc.rect.width, calc.snapTo)

(* the neighbor edges strictly within 0.6 * snapTo of v *)
EdgesNear(v) == { i \in 1..Len(calc.edges) : 5 * Abs(calc.edges[i] - v) < 3 * calc.snapTo }

(* the nearest of them, the first listed among equally near ones *)
NearestEdge(v) ==
    LET near == EdgesNear(v)
        i == CHOOSE k \in near : \A j \in near :
                 \/ Abs(calc.edges[k] - v) < Abs(calc.edges[j] - v)
                 \/ Abs(calc.edges[k] - v) = Abs(calc.edges[j] - v) /\ k <= j
    IN  calc.edges[i]

(* C18 as stated: whenever the right edge of the input rect (x + width)   *)
(* lies within 0.6 * step of a neighbor edge e, the right edge of the     *)
(* returned rect equals e, and the returned width is the snapped far edge *)
(* minus the snapped near edge.                                           *)
C18_InputEdgeSnap ==
    Returned("snapRect") =>
        /\ \A i \in EdgesNear(calc.rect.x + calc.rect.width) :
               calc.result.x + calc.result.width = calc.edges[i]
        /\ calc.result.width =
               (IF EdgesNear(GridFar) = {} THEN GridFar ELSE NearestEdge(GridFar)) - calc.result.x

(* C18: when the grid-snapped right edge (the returned x plus the rounded *)
(* width) lies strictly within 0.6 * step of some neighbor edge, the      *)
(* returned right edge is the nearest such edge, the first listed among   *)
(* equally near ones, provided that leaves a width of at least MIN_SIZE;  *)
(* the returned width is the larger of MIN_SIZE and the snapped far edge  *)
(* minus the snapped near edge.                                           *)
C18_GridEdgeSnap ==
    Returned("snapRect") =>
        LET far == IF EdgesNear(GridFar) = {} THEN GridFar ELSE NearestEdge(GridFar)
        IN  /\ calc.result.width = Max2(far - calc.result.x, MIN_SIZE)
            /\ (EdgesNear(GridFar) # {} /\ far - calc.result.x >= MIN_SIZE)
                   => calc.result.x + calc.result.width = NearestEdge(GridFar)

(* a call where two listed edges are equally near the grid-snapped right  *)
(* edge and the returned right edge is the first of them, away from the   *)
(* right edge of the input                                                *)
C18_Witness ==
    /\ Returned("snapRect")
    /\ Len(calc.edges) = 2
    /\ calc.edges[1] # calc.edges[2]
    /\ EdgesNear(GridFar) = { 1, 2 }
    /\ Abs(calc.edges[1] - GridFar) = Abs(calc.edges[2] - GridFar)
    /\ calc.result.x + calc.result.width = calc.edges[1]
    /\ calc.rect.x + calc.rect.width # calc.edges[1]

(* the distance of two angles around the circle *)
CircularDistance(a, b) == Min2((a - b) % 360, 360 - ((a - b) % 360))

Multiples15 == { 15 * k : k \in 0..21 }

SnapSet == { snaps[i] : i \in 1..Len(snaps) }

SliceAt(i) == calc.result[i + 1]

clampDeltaForPolygon_nearOnly(points, bounds, dx, dy) ==
    LET xs == { points[i].x + dx : i \in 1..Len(points) }
        ys == { points[i].y + dy : i \in 1..Len(points) }
    IN  [dx |-> dx + (IF SetMin(xs) < 0 THEN -SetMin(xs) ELSE 0),
         dy |-> dy + (IF SetMin(ys) < 0 THEN -SetMin(ys) ELSE 0)]

clampDeltaForPolygon(points, bounds, dx, dy) ==
    LET xs == { points[i].x + dx : i \in 1..Len(points) }
        ys == { points[i].y + dy : i \in 1..Len(points) }
        minX == SetMin(xs)
        maxX == SetMax(xs)
        minY == SetMin(ys)
        maxY == SetMax(ys)
    IN  [dx |-> dx + (IF minX < 0 THEN -minX ELSE 0) + (IF maxX > bounds.width THEN bounds.width - maxX ELSE 0),
         dy |-> dy + (IF minY < 0 THEN -minY ELSE 0) + (IF maxY > bounds.height THEN bounds.height - maxY ELSE 0)]

(* polygons.flat().concat(holes.flat(2)) *)
clampDeltaForMultiPolygon(polygons, bounds, dx, dy, holes) ==
    clampDeltaForPolygon(Flatten(polygons) \o Flatten(Flatten(holes)), bounds, dx, dy)

(* ---- inputs of the calls ---- *)

MaxDelta == 6      \* requested translations range over -MaxDelta..MaxDelta
MaxOrigin == 4     \* point sets start at -2..MaxOrigin

BoundsInputs == { [width |-> 8, height |-> 8], [width |-> 4, height |-> 6] }

PointInputs ==
    { Triangle(ox, oy, w) : ox \in (-2)..MaxOrigin, oy \in { 0, 2 }, w \in { 2, 4, 10 } }

MultiInputs ==
    { [polygons |-> << Triangle(ox, 0, 4), Triangle(1, oy, 2) >>,
       holes |-> IF holed THEN << << Triangle(ox + 1, 1, 1) >>, <<>> >> ELSE <<>>] :
      ox \in (-2)..MaxOrigin, oy \in { 0, 5 }, holed \in BOOLEAN }

ClampDeltaCalls ==
    { [fn |-> "clampDeltaForPolygon", points |-> pts, bounds |-> b, dx |-> dx, dy |-> dy,
       done |-> FALSE, result |-> <<>>] :
      pts \in PointInputs, b \in BoundsInputs, dx \in (-MaxDelta)..MaxDelta, dy \in { -MaxDelta, 0, 1 } }

ClampDeltaMultiCalls ==
    { [fn |-> "clampDeltaForMultiPolygon", polygons |-> m.polygons, holes |-> m.holes,
       points |-> Flatten(m.polygons) \o Flatten(Flatten(m.holes)), bounds |-> b, dx |-> dx, dy |-> dy,
       done |-> FALSE, result |-> <<>>] :
      m \in MultiInputs, b \in BoundsInputs, dx \in { -MaxDelta, 0, 1 }, dy \in (-MaxDelta)..MaxDelta }

Handles == { {"n"}, {"s"}, {"e"}, {"w"}, {"n", "e"}, {"n", "w"}, {"s", "e"}, {"s", "w"} }

DeltaInputs == { -MaxDelta, -1, 0, 2, MaxDelta }

(* rects inside, across the edges of, and larger than the bounds *)
RectInputs ==
    { RectShape(rx, ry, w, h) : rx \in { -2, 0, 3, 7 }, ry \in { 0, 7 }, w \in { 1, 2, 5, 10 }, h \in { 2, 10 } }

ResizeCalls ==
    { [fn |-> "applyRectResize", rect |-> r, handle |-> hd, dx |-> dx, dy |-> dy, bounds |-> b,
       done |-> FALSE, result |-> <<>>] :
      r \in RectInputs, hd \in Handles, dx \in DeltaInputs, dy \in DeltaInputs,
      b \in BoundsInputs \cup { [width |-> 1, height |-> 8] } }

MoveRectCalls ==
    { [fn |-> "moveRect", rect |-> r, dx |-> dx, dy |-> dy, bounds |-> b, done |-> FALSE, result |-> <<>>] :
      r \in RectInputs, dx \in (-MaxDelta)..MaxDelta, dy \in DeltaInputs, b \in BoundsInputs }

(* Numbers of the program are binary floating-point: the result of every  *)
(* addition and subtraction is rounded to the nearest number with a       *)
(* significand of that many bits, ties to the even significand.  The      *)
(* model rounds to MantissaBits bits where the program rounds to 53;      *)
(* doubling and halving are exact in both.                                *)
MantissaBits == 3
MaxFloat == 16     \* round-trip arguments range over the numbers up to MaxFloat in magnitude

(* the exponent at which a magnitude fits the significand *)
RECURSIVE ExponentOf(_, _)
ExponentOf(a, e) == IF a < Pow2(MantissaBits + e) THEN e ELSE ExponentOf(a, e + 1)

RoundMagnitude(a) ==
    LET e == ExponentOf(a, 0)
        q == a \div Pow2(e)
        r == a % Pow2(e)
    IN  IF 2 * r > Pow2(e) \/ (2 * r = Pow2(e) /\ q % 2 = 1) THEN (q + 1) * Pow2(e) ELSE q * Pow2(e)

Fl(n) == IF n < 0 THEN -RoundMagnitude(-n) ELSE RoundMagnitude(n)

Representable(n) == Fl(n) = n

(* the value a conversion returns: each field is one rounded operation *)
Rounded(shape) ==
    IF shape.type = "rect"
    THEN RectShape(Fl(shape.x), Fl(shape.y), Fl(shape.width), Fl(shape.height))
    ELSE EllipseShape(Fl(shape.cx), Fl(shape.cy), Fl(shape.rx), Fl(shape.ry))

FloatInputs == { n \in (-MaxFloat)..MaxFloat : Representable(n) }

EllipseCalls ==
    { [fn |-> "rectToEllipse(ellipseToRect)", shape |-> EllipseShape(ecx, ecy, erx, ery),
       done |-> FALSE, result |-> <<>>] :
      ecx \in FloatInputs, ecy \in { 0, 3 }, erx \in { n \in FloatInputs : n >= 0 }, ery \in { 1, 4 } }

RectCalls ==
    { [fn |-> "ellipseToRect(rectToEllipse)", shape |-> RectShape(rx, ry, w, h),
       done |-> FALSE, result |-> <<>>] :
      rx \in FloatInputs, ry \in { 0, 3 }, w \in { n \in FloatInputs : n >= 0 /\ n % 2 = 0 }, h \in { 2, 8 } }

InitBox ==
    /\ StoreInit
    /\ calc \in ClampDeltaCalls \cup ClampDeltaMultiCalls \cup ResizeCalls \cup MoveRectCalls
                  \cup EllipseCalls \cup RectCalls
    /\ mem = NoMem

ClampDelta ==
    /\ calc.fn = "clampDeltaForPolygon" /\ ~calc.done
    /\ calc' = [calc EXCEPT !.done = TRUE,
                            !.result = clampDeltaForPolygon(calc.points, calc.bounds, calc.dx, calc.dy)]
    /\ StoreIdle

ClampDeltaMulti ==
    /\ calc.fn = "clampDeltaForMultiPolygon" /\ ~calc.done
    /\ calc' = [calc EXCEPT !.done = TRUE,
                            !.result = clampDeltaForMultiPolygon(calc.polygons, calc.bounds, calc.dx, calc.dy,
                                                                 calc.holes)]
    /\ StoreIdle

ResizeRect ==
    /\ calc.fn = "applyRectResize" /\ ~calc.done
    /\ calc' = [calc EXCEPT !.done = TRUE,
                            !.result = applyRectResize(calc.rect, calc.handle, calc.dx, calc.dy, calc.bounds)]
    /\ StoreIdle

MoveRect ==
    /\ calc.fn = "moveRect" /\ ~calc.done
    /\ calc' = [calc EXCEPT !.done = TRUE, !.result = moveRect(calc.rect, calc.dx, calc.dy, calc.bounds)]
    /\ StoreIdle

EllipseRoundTrip ==
    /\ calc.fn = "rectToEllipse(ellipseToRect)" /\ ~calc.done
    /\ calc' = [calc EXCEPT !.done = TRUE, !.result = Rounded(rectToEllipse(Rounded(ellipseToRect(calc.shape))))]
    /\ StoreIdle

RectRoundTrip ==
    /\ calc.fn = "ellipseToRect(rectToEllipse)" /\ ~calc.done
    /\ calc' = [calc EXCEPT !.done = TRUE, !.result = Rounded(ellipseToRect(Rounded(rectToEllipse(calc.shape))))]
    /\ StoreIdle

NextBox == ClampDelta \/ ClampDeltaMulti \/ ResizeRect \/ MoveRect \/ EllipseRoundTrip \/ RectRoundTrip

SpecBox == InitBox /\ [][NextBox]_vars

(* the bounding box of the points of a call, moved by (dx, dy), lies in its bounds *)
PointsWithin(dx, dy) ==
    \A i \in 1..Len(calc.points) :
        /\ 0 <= calc.points[i].x + dx /\ calc.points[i].x + dx <= calc.bounds.width
        /\ 0 <= calc.points[i].y + dy /\ calc.points[i].y + dy <= calc.bounds.height

ClampDeltaReturned == Returned("clampDeltaForPolygon") \/ Returned("clampDeltaForMultiPolygon")

(* C21 as stated: clampDeltaForPolygon (and clampDeltaForMultiPolygon     *)
(* over all rings) returns a translation that is never larger in          *)
(* magnitude than the requested one and that keeps the bounding box of    *)
(* the translated points within the bounds, for every point set.          *)
C21_ClampDeltaAlways ==
    ClampDeltaReturned =>
        /\ Abs(calc.result.dx) <= Abs(calc.dx)
        /\ Abs(calc.result.dy) <= Abs(calc.dy)
        /\ PointsWithin(calc.result.dx, calc.result.dy)

(* C21: for points whose bounding box lies within the bounds before the   *)
(* move, clampDeltaForPolygon (and clampDeltaForMultiPolygon over all     *)
(* rings and holes) returns a translation that is never larger in         *)
(* magnitude than the requested one and that keeps the bounding box of    *)
(* the translated points within the bounds.                               *)
C21_ClampDeltaInside ==
    (ClampDeltaReturned /\ PointsWithin(0, 0)) =>
        /\ Abs(calc.result.dx) <= Abs(calc.dx)
        /\ Abs(calc.result.dy) <= Abs(calc.dy)
        /\ PointsWithin(calc.result.dx, calc.result.dy)

(* a multipolygon with a hole, inside its bounds, asked to move out of    *)
(* them: the move is cut short but not cancelled                          *)
C21_Witness ==
    /\ Returned("clampDeltaForMultiPolygon")
    /\ calc.holes # <<>>
    /\ PointsWithin(0, 0)
    /\ ~PointsWithin(calc.dx, calc.dy)
    /\ calc.result.dy # calc.dy
    /\ calc.result.dy # 0
    /\ PointsWithin(calc.result.dx, calc.result.dy)

(* a rect lies within the bounds of the call *)
RectWithin(r) ==
    /\ 0 <= r.x /\ r.x + r.width <= calc.bounds.width
    /\ 0 <= r.y /\ r.y + r.height <= calc.bounds.height

(* C22 as stated: applyRectResize never inverts or overflows: for every   *)
(* rect, handle, delta and bounds the returned rect has min <= width <=   *)
(* bounds.width, min <= height <= bounds.height, 0 <= x, x + width <=     *)
(* bounds.width, 0 <= y and y + height <= bounds.height.                  *)
C22_ResizeAlways ==
    Returned("applyRectResize") =>
        /\ MIN_SIZE <= calc.result.width /\ calc.result.width <= calc.bounds.width
        /\ MIN_SIZE <= calc.result.height /\ calc.result.height <= calc.bounds.height
        /\ RectWithin(calc.result)

(* C22: for bounds at least min wide and high, applyRectResize returns,   *)
(* for every rect, handle and delta, a rect with min <= width <=          *)
(* bounds.width, min <= height <= bounds.height, 0 <= x, x + width <=     *)
(* bounds.width, 0 <= y and y + height <= bounds.height.                  *)
C22_ResizeInBounds ==
    (Returned("applyRectResize") /\ calc.bounds.width >= MIN_SIZE /\ calc.bounds.height >= MIN_SIZE) =>
        /\ MIN_SIZE <= calc.result.width /\ calc.result.width <= calc.bounds.width
        /\ MIN_SIZE <= calc.result.height /\ calc.result.height <= calc.bounds.height
        /\ RectWithin(calc.result)

(* a rect that starts across the left edge of the bounds and is dragged   *)
(* by its south-east handle far past the canvas: the result is brought    *)
(* back inside and fills the bounds                                      *)
C22_Witness ==
    /\ Returned("applyRectResize")
    /\ calc.handle = {"s", "e"}
    /\ calc.rect.x < 0
    /\ calc.rect.x + calc.rect.width + calc.dx > calc.bounds.width
    /\ calc.bounds.width >= MIN_SIZE /\ calc.bounds.height >= MIN_SIZE
    /\ RectWithin(calc.result)
    /\ calc.result.width = calc.bounds.width

(* C23 as stated: moveRect returns a rect of the input's width and height *)
(* that lies fully inside the bounds, for every rect, delta and bounds.   *)
C23_MoveAlways ==
    Returned("moveRect") =>
        /\ calc.result.width = calc.rect.width
        /\ calc.result.height = calc.rect.height
        /\ RectWithin(calc.result)

(* C23: moveRect returns a rect of the input's width and height; when the *)
(* rect is no wider and no higher than the bounds, the returned rect lies *)
(* fully inside the bounds, wherever the input was and whatever the delta *)
C23_MoveFitting ==
    Returned("moveRect") =>
        /\ calc.result.width = calc.rect.width
        /\ calc.result.height = calc.rect.height
        /\ (calc.rect.width <= calc.bounds.width /\ calc.rect.height <= calc.bounds.height)
               => RectWithin(calc.result)

(* a fitting rect asked to move past the far corner ends flush with it *)
C23_Witness ==
    /\ Returned("moveRect")
    /\ calc.rect.width <= calc.bounds.width /\ calc.rect.height <= calc.bounds.height
    /\ calc.rect.x + calc.dx + calc.rect.width > calc.bounds.width
    /\ calc.rect.y + calc.dy + calc.rect.height > calc.bounds.height
    /\ calc.result.x + calc.result.width = calc.bounds.width
    /\ calc.result.y + calc.result.height = calc.bounds.height
    /\ calc.result.x > 0

(* C24 as stated: rectToEllipse(ellipseToRect(e)) equals e for every     *)
(* ellipse e, and ellipseToRect(rectToEllipse(r)) equals r for every rect *)
C24_RoundTrip ==
    (Returned("rectToEllipse(ellipseToRect)") \/ Returned("ellipseToRect(rectToEllipse)"))
        => calc.result = calc.shape

(* C24: rectToEllipse(ellipseToRect(e)) has the radii of e, and equals e  *)
(* when cx - rx and cy - ry need no rounding; ellipseToRect(              *)
(* rectToEllipse(r)) has the width and height of r, and equals r when     *)
(* x + width/2 and y + height/2 need no rounding.                         *)
C24_RoundTripExact ==
    /\ Returned("rectToEllipse(ellipseToRect)") =>
           /\ calc.result.rx = calc.shape.rx /\ calc.result.ry = calc.shape.ry
           /\ (Representable(calc.shape.cx - calc.shape.rx) /\ Representable(calc.shape.cy - calc.shape.ry))
                  => calc.result = calc.shape
    /\ Returned("ellipseToRect(rectToEllipse)") =>
           /\ calc.result.width = calc.shape.width /\ calc.result.height = calc.shape.height
           /\ (/\ Representable(calc.shape.x + calc.shape.width \div 2)
               /\ Representable(calc.shape.y + calc.shape.height \div 2))
                  => calc.result = calc.shape

(* a rect away from the origin, whose centre needs no rounding, has gone  *)
(* to an ellipse and back                                                 *)
C24_Witness ==
    /\ Returned("ellipseToRect(rectToEllipse)")
    /\ calc.shape.x > 0 /\ calc.shape.y > 0 /\ calc.shape.width > 0
    /\ Representable(calc.shape.x + calc.shape.width \div 2)
    /\ calc.result = calc.shape

(* the areas of p without the one at index k (all of them when k = 0) *)
AreasBut(p, k) ==
    IF k = 0 THEN p.areas ELSE SubSeq(p.areas, 1, k - 1) \o SubSeq(p.areas, k + 1, Len(p.areas))

(* C25: area/delete removes the area with the given id from the plan if   *)
(* present, leaves every other area unchanged and in the same order,      *)
(* leaves every area group unchanged (a group that lists the deleted id   *)
(* then dangles), and returns an empty selection.                         *)
C25_Delete ==
    [][(last'.op = "apply" /\ last'.cmd.type = "area/delete") =>
           /\ plan'.areas = AreasBut(plan, AreaIndex(plan, last'.cmd.id))
           /\ ~HasArea(plan', last'.cmd.id)
           /\ plan'.areaGroups = plan.areaGroups
           /\ selection' = <<>>]_vars

(* an area listed by a group has been deleted: the group still lists it *)
C25_Witness ==
    /\ last.op = "apply" /\ last.cmd.type = "area/delete"
    /\ history.undo # <<>>
    /\ HasArea(Last(history.undo).before, last.cmd.id)
    /\ ~HasArea(plan, last.cmd.id)
    /\ Len(plan.areas) = Len(Last(history.undo).before.areas) - 1
    /\ \E i \in 1..Len(plan.areaGroups) : last.cmd.id \in Range(plan.areaGroups[i].areaIds)
    /\ selection = <<>>

(***************************************************************************)
(* The store with its plan objects told apart.  mem.heap lists the plan    *)
(* objects ever made; mem.plan, and the before and after of every history  *)
(* record, are addresses into it.  structuredClone makes a new object;     *)
(* a command writes to the object it names next.                           *)
(***************************************************************************)

MaxHeapSteps == 3  \* store operations explored by SpecHeap

(* faulty variant: the command edits the plan object it was given *)
WriteTarget_inPlace(given, fresh) == given

(* const next = clonePlan(plan): the object a command edits *)
WriteTarget(given, fresh) == fresh

(* the object performCommand returns and the heap it leaves, for the      *)
(* result res computed on heap[given]; a plan/load payload is the object  *)
(* at address payload                                                     *)
CommandReturn(heap, given, c, res, payload) ==
    IF res.description = "" \/ c.type = "selection/set"
    THEN [heap |-> heap, ref |-> given]
    ELSE IF c.type = "plan/load"
    THEN [heap |-> heap, ref |-> payload]
    ELSE LET cloned == Append(heap, clonePlan(heap[given]))
             target == WriteTarget(given, Len(cloned))
         IN  [heap |-> [cloned EXCEPT ![target] = res.plan], ref |-> target]

InitHeap ==
    /\ StoreInit
    /\ calc = NoCall
    /\ mem = [heap |-> << seedPlan >>, plan |-> 1, selection |-> <<>>, undo |-> <<>>, redo |-> <<>>,
              nextId |-> 3, steps |-> 0, last |-> [op |-> "init", input |-> 1]]

HeapIdle == UNCHANGED <<plan, selection, history, clock, nextId, applied, last, trip, calc>>

(* apply(command) with the result res of performCommand on the current plan *)
HeapApplyWith(c, res) ==
    LET withBefore == Append(mem.heap, clonePlan(mem.heap[mem.plan]))
        before == Len(withBefore)
        withPayload == IF c.type = "plan/load" THEN Append(withBefore, c.plan) ELSE withBefore
        ret == CommandReturn(withPayload, mem.plan, c, res, Len(withPayload))
        changed == Changed(ret.heap[before], ret.heap[ret.ref])
        withAfter == Append(ret.heap, clonePlan(ret.heap[ret.ref]))
    IN  mem' = IF ~changed
               THEN [mem EXCEPT !.heap = ret.heap,
                                !.selection = IF res.hasSelection THEN res.selection ELSE @,
                                !.steps = @ + 1,
                                !.last = [op |-> "apply", input |-> mem.plan]]
               ELSE [heap |-> withAfter,
                     plan |-> ret.ref,
                     selection |-> IF res.hasSelection THEN res.selection ELSE mem.selection,
                     undo |-> LastN(Append(mem.undo, [type |-> c.type, before |-> before,
                                                      after |-> Len(withAfter)]), HistoryCap),
                     redo |-> <<>>,
                     nextId |-> Max2(mem.nextId + res.used, SetMax(PlanIds(res.plan) \cup {0}) + 1),
                     steps |-> mem.steps + 1,
                     last |-> [op |-> "apply", input |-> mem.plan]]

HeapApply ==
    /\ mem.steps < MaxHeapSteps
    /\ \E c \in StoreCommands(mem.heap[mem.plan]) :
           HeapApplyWith(c, performCommand(mem.heap[mem.plan], c, mem.steps + 1, mem.nextId))
    /\ HeapIdle

HeapUndo ==
    /\ mem.steps < MaxHeapSteps
    /\ mem.undo # <<>>
    /\ mem' = [mem EXCEPT !.heap = Append(@, clonePlan(mem.heap[Last(mem.undo).before])),
                          !.plan = Len(mem.heap) + 1,
                          !.selection = <<>>,
                          !.undo = Front(@),
                          !.redo = << Last(mem.undo) >> \o @,
                          !.steps = @ + 1,
                          !.last = [op |-> "undo", input |-> mem.plan]]
    /\ HeapIdle

HeapRedo ==
    /\ mem.steps < MaxHeapSteps
    /\ mem.redo # <<>>
    /\ mem' = [mem EXCEPT !.heap = Append(@, clonePlan(mem.heap[Head(mem.redo).after])),
                          !.plan = Len(mem.heap) + 1,
                          !.selection = <<>>,
                          !.undo = Append(@, Head(mem.redo)),
                          !.redo = Tail(@),
                          !.steps = @ + 1,
                          !.last = [op |-> "redo", input |-> mem.plan]]
    /\ HeapIdle

NextHeap == HeapApply \/ HeapUndo \/ HeapRedo

SpecHeap == InitHeap /\ [][NextHeap]_vars

(* the snapshot addresses held by the undo and redo stacks of m *)
Snapshots(m) ==
    { (m.undo \o m.redo)[i].before : i \in 1..(Len(m.undo) + Len(m.redo)) }
        \cup { (m.undo \o m.redo)[i].after : i \in 1..(Len(m.undo) + Len(m.redo)) }

(* C26: performCommand never modifies the plan passed to it, and the      *)
(* before and after snapshots of the history records are objects of       *)
(* their own (none is the current plan, none is shared by two places),    *)
(* so no later command, undo or redo alters a snapshot already stored.    *)
C26_SnapshotIsolation ==
    [][/\ mem'.last.op = "apply" => mem'.heap[mem.plan] = mem.heap[mem.plan]
       /\ \A a \in Snapshots(mem) : mem'.heap[a] = mem.heap[a]
       /\ mem'.plan \notin Snapshots(mem')
       /\ Cardinality(Snapshots(mem')) = 2 * (Len(mem'.undo) + Len(mem'.redo))]_vars

(* after two commands and an undo, both stacks hold a record; the plan    *)
(* shown equals the undone record's before snapshot and is another object *)
C26_Witness ==
    /\ mem.heap # <<>>
    /\ mem.last.op = "undo"
    /\ mem.undo # <<>> /\ mem.redo # <<>>
    /\ mem.plan # Head(mem.redo).before
    /\ mem.heap[mem.plan] = mem.heap[Head(mem.redo).before]
    /\ mem.heap[mem.plan] # mem.heap[Head(mem.redo).after]

----------------------------------------------------------------------------
(* Placement and movement of rects next to other areas *)

IsRectArea(p, id) == HasArea(p, id) /\ findArea(p, id).shape.type = "rect"

(* the ids of a list that occur in it once *)
ListedOnce(ids) == { id \in Range(ids) : Cardinality({ i \in 1..Len(ids) : ids[i] = id }) = 1 }

(* some other rect area of p overlaps the area id *)
OverlapsAnother(p, id) ==
    \E i \in 1..Len(p.areas) :
        /\ p.areas[i].id # id
        /\ p.areas[i].shape.type = "rect"
        /\ rectsOverlap(findArea(p, id).shape, p.areas[i].shape)

(* C27: placement and movement never fail because of overlap.  area/create *)
(* appends exactly max(1, partitions) areas; area/set-rect,                *)
(* area/set-rect-batch and area/move-multi give an existing rect target    *)
(* the new rect clamped to the canvas, whether or not it then overlaps     *)
(* another area.                                                           *)
C27_NoOverlapRejection ==
    [][last'.op = "apply" =>
        LET c == last'.cmd
        IN  /\ c.type = "area/create" =>
                   /\ Len(plan'.areas) = Len(plan.areas) + Max2(1, c.partitions)
                   /\ SubSeq(plan'.areas, 1, Len(plan.areas)) = plan.areas
                   /\ \A i \in (Len(plan.areas) + 1)..Len(plan'.areas) : plan'.areas[i].shape.type = "rect"
            /\ (c.type = "area/set-rect" /\ IsRectArea(plan, c.id)) =>
                   findArea(plan', c.id).shape = constrainRectToBounds(c.rect, plan.canvas)
            /\ c.type = "area/set-rect-batch" =>
                   \A i \in 1..Len(c.updates) :
                       (IsRectArea(plan, c.updates[i].id)
                          /\ \A j \in (i + 1)..Len(c.updates) : c.updates[j].id # c.updates[i].id) =>
                       findArea(plan', c.updates[i].id).shape
                           = constrainRectToBounds(c.updates[i].rect, plan.canvas)
            /\ c.type = "area/move-multi" =>
                   \A id \in ListedOnce(c.ids) :
                       IsRectArea(plan, id) =>
                       findArea(plan', id).shape = moveRect(findArea(plan, id).shape, c.dx, c.dy, plan.canvas)]_vars

(* a batch has given two rect areas the same rect: they overlap, and both  *)
(* were applied                                                            *)
C27_Witness ==
    /\ last.op = "apply" /\ last.cmd.type = "area/set-rect-batch"
    /\ Len(last.cmd.updates) = 2
    /\ \A i \in 1..2 :
           /\ IsRectArea(plan, last.cmd.updates[i].id)
           /\ findArea(plan, last.cmd.updates[i].id).shape
                  = constrainRectToBounds(last.cmd.updates[i].rect, plan.canvas)
           /\ OverlapsAnother(plan, last.cmd.updates[i].id)

(* the entries of a batch that name an existing rect area of p *)
AppliedEntries(p, updates) == { i \in 1..Len(updates) : IsRectArea(p, updates[i].id) }

(* C28: area/set-rect-batch replaces the shape, clamped to the canvas, of  *)
(* exactly the entries whose id names an existing rect area, skips every   *)
(* other entry, leaves every area no applied entry names unchanged, and    *)
(* selects exactly the ids of the applied entries.                         *)
C28_SetRectBatch ==
    [][(last'.op = "apply" /\ last'.cmd.type = "area/set-rect-batch") =>
        LET updates == last'.cmd.updates
            entries == AppliedEntries(plan, updates)
            named(u) == IsRectArea(plan, u.id)
            kept == SelectSeq(updates, named)
        IN  /\ Len(plan'.areas) = Len(plan.areas)
            /\ \A k \in 1..Len(plan.areas) :
                   LET area == plan.areas[k]
                       mine == { i \in entries : updates[i].id = area.id }
                   IN  plan'.areas[k] =
                           IF mine = {} THEN area
                           ELSE [area EXCEPT !.shape = constrainRectToBounds(updates[SetMax(mine)].rect,
                                                                            plan.canvas)]
            /\ selection' = [i \in 1..Len(kept) |-> kept[i].id]]_vars

(* a batch of two entries, one applied and one skipped: only the applied   *)
(* entry's id is selected                                                  *)
C28_Witness ==
    /\ last.op = "apply" /\ last.cmd.type = "area/set-rect-batch"
    /\ Len(last.cmd.updates) = 2
    /\ IsRectArea(plan, last.cmd.updates[1].id)
    /\ findArea(plan, last.cmd.updates[1].id).shape
           = constrainRectToBounds(last.cmd.updates[1].rect, plan.canvas)
    /\ ~IsRectArea(plan, last.cmd.updates[2].id)
    /\ selection = << last.cmd.updates[1].id >>
    /\ history.undo # <<>>
    /\ Len(Last(history.undo).before.areas) = Len(plan.areas)

(* pasteAreas keeps every rect and ellipse, a polygon of 3 points or more, *)
(* and a multipolygon of at least one ring whose rings all have 3 points   *)
(* or more                                                                 *)
Accepted(area) ==
    IF area.shape.type = "polygon" THEN Len(area.shape.points) >= 3
    ELSE IF area.shape.type = "multipolygon"
    THEN area.shape.polygons # <<>> /\ \A i \in 1..Len(area.shape.polygons) : Len(area.shape.polygons[i]) >= 3
    ELSE TRUE

(* a shape offset by (dx, dy), a rect then clamped to the canvas *)
Shifted(shape, dx, dy, canvas) ==
    IF shape.type = "rect"
    THEN constrainRectToBounds(RectShape(shape.x + dx, shape.y + dy, shape.width, shape.height), canvas)
    ELSE IF shape.type = "ellipse" THEN EllipseShape(shape.cx + dx, shape.cy + dy, shape.rx, shape.ry)
    ELSE TranslateShape(shape, dx, dy)

(* C29: area/paste appends one new area per accepted input area, each     *)
(* with a fresh id different from every id in the plan and from its        *)
(* source's id, its shape offset by (dx, dy) and a rect clamped to the     *)
(* canvas; short polygons and multipolygons with no ring or a short ring   *)
(* are dropped; the existing areas are unchanged; the selection is exactly *)
(* the new ids; when no input is accepted the plan is returned unchanged.  *)
C29_Paste ==
    [][(last'.op = "apply" /\ last'.cmd.type = "area/paste") =>
        LET c == last'.cmd
            kept == SelectSeq(c.areas, Accepted)
            n == Len(plan.areas)
        IN  IF kept = <<>> THEN plan' = plan /\ selection' = selection
            ELSE /\ Len(plan'.areas) = n + Len(kept)
                 /\ SubSeq(plan'.areas, 1, n) = plan.areas
                 /\ \A i \in 1..Len(kept) :
                        /\ plan'.areas[n + i].id \notin PlanIds(plan) \cup { kept[i].id }
                        /\ plan'.areas[n + i].shape = Shifted(kept[i].shape, c.dx, c.dy, plan.canvas)
                        /\ \A j \in 1..Len(kept) : i # j => plan'.areas[n + i].id # plan'.areas[n + j].id
                 /\ selection' = [i \in 1..Len(kept) |-> plan'.areas[n + i].id]]_vars

(* a paste of three areas of which two were dropped: one copy was added *)
C29_Witness ==
    /\ last.op = "apply" /\ last.cmd.type = "area/paste"
    /\ Len(last.cmd.areas) = 3
    /\ Len(SelectSeq(last.cmd.areas, Accepted)) = 1
    /\ history.undo # <<>>
    /\ Len(plan.areas) = Len(Last(history.undo).before.areas) + 1
    /\ selection = << plan.areas[Len(plan.areas)].id >>
    /\ plan.areas[Len(plan.areas)].id \notin PlanIds(Last(history.undo).before)

(* the ids of a list that name an area of p, in the list's order *)
Existing(p, ids) ==
    LET found(id) == HasArea(p, id)
    IN  SelectSeq(ids, found)

(* the areas of p whose id is not listed *)
NotListed(p, ids) ==
    LET other(area) == area.id \notin Range(ids)
    IN  SelectSeq(p.areas, other)

(* the rings an area contributes to a conversion: a rect its 4 corners, a  *)
(* polygon its points, an ellipse its sampled outline, a multipolygon each *)
(* of its rings                                                            *)
Contributed(shape) ==
    IF shape.type = "rect"
    THEN << << Point(shape.x, shape.y), Point(shape.x + shape.width, shape.y),
               Point(shape.x + shape.width, shape.y + shape.height), Point(shape.x, shape.y + shape.height) >> >>
    ELSE IF shape.type = "polygon" THEN << shape.points >>
    ELSE IF shape.type = "ellipse" THEN << SampleEllipse(shape.cx, shape.cy, shape.rx, shape.ry) >>
    ELSE shape.polygons

RingsOf(p, ids) ==
    LET present == Existing(p, ids)
    IN  Flatten([i \in 1..Len(present) |-> Contributed(findArea(p, present[i]).shape)])

(* every listed area is gone and one new area, of the given shape, has     *)
(* been appended and selected                                              *)
ConvertedTo(p, q, sel, ids, shape) ==
    /\ Len(q.areas) = Len(NotListed(p, ids)) + 1
    /\ SubSeq(q.areas, 1, Len(q.areas) - 1) = NotListed(p, ids)
    /\ q.areas[Len(q.areas)].id \notin PlanIds(p)
    /\ q.areas[Len(q.areas)].shape = shape
    /\ sel = << q.areas[Len(q.areas)].id >>

(* C30 as stated: with an existing target, area/convert-to-polygon removes *)
(* every listed area and appends one new area, a polygon when there is a   *)
(* single input and a multipolygon when there are several; with no         *)
(* existing target the plan is unchanged.                                  *)
C30_ConvertByInputs ==
    [][(last'.op = "apply" /\ last'.cmd.type = "area/convert-to-polygon") =>
        LET ids == last'.cmd.ids
            rings == RingsOf(plan, ids)
        IN  IF Existing(plan, ids) = <<>> THEN plan' = plan
            ELSE ConvertedTo(plan, plan', selection', ids,
                             IF Len(Existing(plan, ids)) = 1 THEN PolygonShape(rings[1], <<>>)
                             ELSE MultiPolygonShape(rings, <<>>))]_vars

(* C30, amended: the new area is a polygon when exactly one ring was       *)
(* collected and a multipolygon of all the rings otherwise, so a single    *)
(* multipolygon input of several rings gives a multipolygon; a rect        *)
(* contributes its 4 corners, a polygon its points, a multipolygon each of *)
(* its rings; with no existing target, or no ring, the plan is unchanged.  *)
C30_ConvertByRings ==
    [][(last'.op = "apply" /\ last'.cmd.type = "area/convert-to-polygon") =>
        LET ids == last'.cmd.ids
            rings == RingsOf(plan, ids)
        IN  IF Existing(plan, ids) = <<>> \/ rings = <<>> THEN plan' = plan
            ELSE ConvertedTo(plan, plan', selection', ids,
                             IF Len(rings) = 1 THEN PolygonShape(rings[1], <<>>)
                             ELSE MultiPolygonShape(rings, <<>>))]_vars

(* a single multipolygon of two rings was converted: the new area is a     *)
(* multipolygon of the same two rings                                      *)
C30_Witness ==
    /\ last.op = "apply" /\ last.cmd.type = "area/convert-to-polygon"
    /\ Len(last.cmd.ids) = 1
    /\ history.undo # <<>>
    /\ LET before == Last(history.undo).before
       IN  /\ HasArea(before, last.cmd.ids[1])
           /\ findArea(before, last.cmd.ids[1]).shape.type = "multipolygon"
           /\ Len(findArea(before, last.cmd.ids[1]).shape.polygons) = 2
           /\ ~HasArea(plan, last.cmd.ids[1])
           /\ plan.areas[Len(plan.areas)].shape
                  = MultiPolygonShape(findArea(before, last.cmd.ids[1]).shape.polygons, <<>>)
           /\ Len(plan.areas) = Len(before.areas)

----------------------------------------------------------------------------
(* Mirroring *)

(* point q reflected about the centre of box on the axis: the coordinate   *)
(* v becomes 2 * centre - v, and twice the centre is 2 * box.x + box.width *)
Reflected(q, axis, box) ==
    IF axis = "vertical" THEN Point(2 * box.x + box.width - q.x, q.y)
    ELSE Point(q.x, 2 * box.y + box.height - q.y)

ReflectedRing(ring, axis, box) == [i \in 1..Len(ring) |-> Reflected(ring[i], axis, box)]

ReflectedShape(shape, axis) ==
    LET box == shapeBoundingBox(shape)
    IN  IF shape.type = "polygon"
        THEN PolygonShape(ReflectedRing(shape.points, axis, box),
                          [h \in 1..Len(shape.holes) |-> ReflectedRing(shape.holes[h], axis, box)])
        ELSE MultiPolygonShape([i \in 1..Len(shape.polygons) |-> ReflectedRing(shape.polygons[i], axis, box)],
                               [i \in 1..Len(shape.holes) |->
                                   [h \in 1..Len(shape.holes[i]) |-> ReflectedRing(shape.holes[i][h], axis, box)]])

(* C31, as stated: area/mirror on a polygon or multipolygon maps every     *)
(* point, hole points included, to 2 * c - p on the requested axis, c the  *)
(* centre of the shape's bounding box, and keeps the other coordinate; on  *)
(* a rect or an ellipse it leaves the plan unchanged and records nothing.  *)
C31_Mirror ==
    [][(last'.op = "apply" /\ last'.cmd.type = "area/mirror" /\ HasArea(plan, last'.cmd.id)) =>
        LET shape == findArea(plan, last'.cmd.id).shape
        IN  IF shape.type \in {"rect", "ellipse"}
            THEN plan' = plan /\ history' = history
            ELSE findArea(plan', last'.cmd.id).shape = ReflectedShape(shape, last'.cmd.axis)]_vars

(* the part of C31 about polygons and multipolygons *)
C31_MirrorPoints ==
    [][(last'.op = "apply" /\ last'.cmd.type = "area/mirror" /\ HasArea(plan, last'.cmd.id)
          /\ findArea(plan, last'.cmd.id).shape.type \in {"polygon", "multipolygon"}) =>
        findArea(plan', last'.cmd.id).shape
            = ReflectedShape(findArea(plan, last'.cmd.id).shape, last'.cmd.axis)]_vars

----------------------------------------------------------------------------
(* The naming functions called on their own.  Plans are drawn with areas   *)
(* named "Area n", n up to the first whole number a double cannot tell     *)
(* from its successor (2^53 in the program), and with names without        *)
(* digits; partitionNames is called with counts from 0 to MaxNames.        *)

MaxNames == 28   \* largest count partitionNames is called with

IndexInputs == { 1, 2, Pow2(IndexBits) - 1, Pow2(IndexBits) }

NameInputs ==
    { Name("Area ", n, "") : n \in IndexInputs } \cup { Name("Hall", NoIndex, ""), Name("Wing ", 2, " B") }

NamedPlan(names) ==
    [createBlankPlan(96, 72, "m", "Names", 0) EXCEPT
        !.areas = [i \in 1..Len(names) |->
                      Area(i, names[i], "#bfdbfe", "#1d4ed8", DefaultStrokeWidth, RectShape(8, 8, 8, 8), NoId)]]

DefaultNameCalls ==
    { [fn |-> "defaultAreaName", plan |-> NamedPlan(names), done |-> FALSE, result |-> <<>>] :
      names \in { <<>> } \cup { <<a>> : a \in NameInputs } \cup { <<a, b>> : a \in NameInputs, b \in NameInputs } }

PartitionNameCalls ==
    { [fn |-> "partitionNames", base |-> base, count |-> count, done |-> FALSE, result |-> <<>>] :
      base \in NameInputs, count \in 0..MaxNames }

InitName ==
    /\ StoreInit
    /\ calc \in DefaultNameCalls \cup PartitionNameCalls
    /\ mem = NoMem

DefaultAreaName ==
    /\ calc.fn = "defaultAreaName" /\ ~calc.done
    /\ calc' = [calc EXCEPT !.done = TRUE, !.result = defaultAreaName(calc.plan)]
    /\ StoreIdle

PartitionNames ==
    /\ calc.fn = "partitionNames" /\ ~calc.done
    /\ calc' = [calc EXCEPT !.done = TRUE, !.result = partitionNames(calc.base, calc.count)]
    /\ StoreIdle

NextName == DefaultAreaName \/ PartitionNames

SpecName == InitName /\ [][NextName]_vars

(* C32, as stated: defaultAreaName(plan) differs from the name of every    *)
(* area of the plan; partitionNames(base, count) returns count pairwise    *)
(* distinct names, the single name base when count <= 1, for every count,  *)
(* counts above 26 included.                                               *)
C32_Names ==
    /\ Returned("defaultAreaName") =>
           \A i \in 1..Len(calc.plan.areas) : calc.plan.areas[i].name # calc.result
    /\ Returned("partitionNames") =>
           /\ calc.count <= 1 => calc.result = << calc.base >>
           /\ calc.count > 1 => Len(calc.result) = calc.count
           /\ \A i, j \in 1..Len(calc.result) : i # j => calc.result[i] # calc.result[j]

(* the part of C32 about partitionNames *)
C32_PartitionNames ==
    Returned("partitionNames") =>
        /\ calc.count <= 1 => calc.result = << calc.base >>
        /\ calc.count > 1 => Len(calc.result) = calc.count
        /\ \A i, j \in 1..Len(calc.result) : i # j => calc.result[i] # calc.result[j]

(* defaultAreaName below the first number whose successor is rounded away *)
C32_DefaultNameSmall ==
    (Returned("defaultAreaName")
       /\ \A i \in 1..Len(calc.plan.areas) : calc.plan.areas[i].name.index < Pow2(IndexBits)) =>
        \A i \in 1..Len(calc.plan.areas) : calc.plan.areas[i].name # calc.result

----------------------------------------------------------------------------
(* The store with a selection made by hand before a command is applied *)

(* the commands whose result carries no selection *)
NoSelectionKinds == { "plan/resize-boundary", "plan/set-viewport", "group/delete", "group/visibility" }

NoSelectionCommands(p) ==
    { c \in PlanCommands \cup GroupCommands(p) : c.type \in NoSelectionKinds }

(* setSelection(selection) *)
SetSelection ==
    /\ \E sel \in { <<>>, FirstIds(plan, 1), FirstIds(plan, 2) } : selection' = sel
    /\ last' = [op |-> "setSelection", cmd |-> NoCmd, changed |-> FALSE]
    /\ UNCHANGED <<plan, history, clock, nextId, applied, trip, calc, mem>>

SelApply ==
    /\ applied < MaxApplies
    /\ \E c \in NoSelectionCommands(plan) : ApplyAt(c, clock)
    /\ UNCHANGED clock

NextSel == SetSelection \/ SelApply \/ LoadPlan \/ Tick

SpecSel == Init /\ [][NextSel]_vars

(* C33: an effective command that returns no selection (resize boundary,   *)
(* set viewport, group delete, group visibility) leaves the store's        *)
(* selection as it was, while the plan is replaced by the command's plan   *)
(* and one record is pushed onto the undo stack.                           *)
C33_SelectionPassThrough ==
    [][(last'.op = "apply" /\ last'.cmd.type \in NoSelectionKinds /\ last'.changed) =>
          /\ selection' = selection
          /\ plan' # plan
          /\ history'.undo # <<>>
          /\ Last(history'.undo).before = plan
          /\ Last(history'.undo).after = plan'
          /\ Len(history.undo) < HistoryCap => Front(history'.undo) = history.undo]_vars

(* a group was hidden while an area was selected: the area is still        *)
(* selected and the command is on the undo stack                           *)
C33_Witness ==
    /\ last.op = "apply" /\ last.cmd.type = "group/visibility" /\ last.changed
    /\ selection # <<>>
    /\ history.undo # <<>>
    /\ Last(history.undo).type = "group/visibility"
    /\ \E i \in 1..Len(plan.areaGroups) : ~plan.areaGroups[i].visible

----------------------------------------------------------------------------
(* Invariants of the history *)

C35_HistoryChain ==
    /\ history.undo # <<>> => plan = Last(history.undo).after
    /\ history.redo # <<>> => plan = Head(history.redo).before
    /\ \A i \in 1..(Len(history.undo) - 1) : history.undo[i].after = history.undo[i + 1].before
    /\ \A i \in 1..(Len(history.redo) - 1) : history.redo[i].after = history.redo[i + 1].before

(* one of two commands has been undone: a record on either stack, the plan *)
(* between them and different from both ends                               *)
C35_Witness ==
    /\ last.op = "undo"
    /\ Len(history.undo) = 1 /\ Len(history.redo) = 1
    /\ plan = history.undo[1].after
    /\ plan = history.redo[1].before
    /\ plan # history.undo[1].before
    /\ plan # history.redo[1].after

----------------------------------------------------------------------------
(* Undo and redo observed in pairs: each of the two, when it acts, leaves  *)
(* in calc the plan and the history it started from, and those the call    *)
(* just before it started from when that call was an undo or redo that     *)
(* had a record to move.                                                   *)

MaxPair == 2   \* commands applied in SpecPair

Observed(op) ==
    [fn |-> op, plan |-> plan, history |-> history, done |-> TRUE,
     prev |-> IF last.op \in {"undo", "redo"} /\ last.changed
              THEN [op |-> last.op, plan |-> calc.plan, history |-> calc.history]
              ELSE [op |-> "none"]]

PairApply ==
    /\ applied < MaxPair
    /\ \E c \in StoreCommands(plan) : ApplyAt(c, clock)
    /\ UNCHANGED clock

PairUndo ==
    LET st == StoreUndo(Store)
    IN  /\ plan' = st.plan
        /\ selection' = st.selection
        /\ history' = st.history
        /\ last' = [op |-> "undo", cmd |-> NoCmd, changed |-> history.undo # <<>>]
        /\ trip' = TripUndo(trip)
        /\ calc' = Observed("undo")
        /\ UNCHANGED <<clock, nextId, applied, mem>>

PairRedo ==
    LET st == StoreRedo(Store)
    IN  /\ plan' = st.plan
        /\ selection' = st.selection
        /\ history' = st.history
        /\ last' = [op |-> "redo", cmd |-> NoCmd, changed |-> history.redo # <<>>]
        /\ trip' = TripRedo(trip)
        /\ calc' = Observed("redo")
        /\ UNCHANGED <<clock, nextId, applied, mem>>

NextPair == PairApply \/ PairUndo \/ PairRedo \/ LoadPlan

SpecPair == Init /\ [][NextPair]_vars

(* the call just made was op, and the call before it was first, which had *)
(* a record to move                                                        *)
JustAfter(first, op) == last.op = op /\ calc.fn = op /\ calc.prev.op = first

(* C36: undo immediately followed by redo, from a state with a record to   *)
(* undo, restores the plan, the undo stack and the redo stack; so does     *)
(* redo immediately followed by undo, from a state with a record to redo.  *)
C36_UndoRedoInverse ==
    /\ JustAfter("undo", "redo") => plan = calc.prev.plan /\ history = calc.prev.history
    /\ JustAfter("redo", "undo") => plan = calc.prev.plan /\ history = calc.prev.history

(* the second of two commands was undone and redone with a record on each  *)
(* stack in between                                                        *)
C36_Witness ==
    /\ JustAfter("undo", "redo")
    /\ Len(calc.prev.history.undo) = 2
    /\ Len(calc.history.undo) = 1 /\ Len(calc.history.redo) = 1
    /\ calc.plan # calc.prev.plan
    /\ plan = calc.prev.plan /\ history = calc.prev.history

(* a redo was undone: the record is back on the redo stack *)
C36_RedoUndone ==
    /\ JustAfter("redo", "undo")
    /\ calc.prev.history.redo # <<>>
    /\ calc.plan # calc.prev.plan
    /\ plan = calc.prev.plan /\ history = calc.prev.history

----------------------------------------------------------------------------
(* Frame of the commands that edit one area *)

SingleEditKinds ==
    { "area/rename", "area/recolor", "area/move", "area/move-polygon", "area/resize", "area/set-rect",
      "area/set-polygon", "area/set-multipolygon", "area/set-ellipse", "area/mirror" }

(* area a with the field a command of the given kind addresses taken from b *)
WithAddressedField(a, b, kind) ==
    IF kind = "area/rename" THEN [a EXCEPT !.name = b.name]
    ELSE IF kind = "area/recolor" THEN [a EXCEPT !.fill = b.fill]
    ELSE [a EXCEPT !.shape = b.shape]

(* C37: a command that edits one existing area (rename, recolor, move,     *)
(* move-polygon, resize, set-rect, set-polygon, set-multipolygon,          *)
(* set-ellipse, mirror) keeps the number and order of the areas, the       *)
(* target's id, every other area, the canvas and the groups; only the      *)
(* addressed field of the target and the last-update time change.          *)
C37_SingleTargetFrame ==
    [][(last'.op = "apply" /\ last'.cmd.type \in SingleEditKinds /\ HasArea(plan, last'.cmd.id)) =>
        LET k == AreaIndex(plan, last'.cmd.id)
        IN  /\ Len(plan'.areas) = Len(plan.areas)
            /\ \A i \in 1..Len(plan.areas) : i # k => plan'.areas[i] = plan.areas[i]
            /\ plan'.areas[k].id = last'.cmd.id
            /\ plan'.areas[k] = WithAddressedField(plan.areas[k], plan'.areas[k], last'.cmd.type)
            /\ plan'.canvas = plan.canvas
            /\ plan'.areaGroups = plan.areaGroups
            /\ [plan' EXCEPT !.areas = plan.areas, !.meta.updatedAt = plan.meta.updatedAt] = plan]_vars

(* the first of several areas was recoloured: its fill is the new one and  *)
(* nothing else of the areas differs from the plan before                  *)
C37_Witness ==
    /\ last.op = "apply" /\ last.cmd.type = "area/recolor" /\ last.changed
    /\ history.undo # <<>>
    /\ LET before == Last(history.undo).before
           k == AreaIndex(before, last.cmd.id)
       IN  /\ k > 0
           /\ Len(before.areas) >= 2
           /\ plan.areas[k].fill = last.cmd.fill
           /\ before.areas[k].fill # last.cmd.fill
           /\ plan.areas = [before.areas EXCEPT ![k].fill = last.cmd.fill]
           /\ plan.areaGroups = before.areaGroups

----------------------------------------------------------------------------
(* The selection a command that adds or removes areas returns *)

AddRemoveKinds ==
    { "area/create", "area/create-polygon", "area/create-ellipse", "area/paste", "area/divide",
      "area/merge", "area/subtract", "area/convert-to-polygon" }

(* C38: for create, create-polygon, create-ellipse, paste, divide, merge,  *)
(* subtract and convert-to-polygon every id of the returned selection is   *)
(* the id of an area of the returned plan, and no id of an area the        *)
(* command removed is in it.                                               *)
C38_SelectionLive ==
    [][(last'.op = "apply" /\ last'.cmd.type \in AddRemoveKinds /\ last'.changed) =>
          /\ Range(selection') \subseteq AreaIds(plan')
          /\ Range(selection') \cap (AreaIds(plan) \ AreaIds(plan')) = {}]_vars

(* a subtraction removed a cutter and kept the base: the base alone is     *)
(* selected                                                                *)
C38_Witness ==
    /\ last.op = "apply" /\ last.cmd.type = "area/subtract" /\ last.changed
    /\ history.undo # <<>>
    /\ Len(selection) = 1
    /\ selection[1] \in AreaIds(plan)
    /\ selection[1] \in Range(last.cmd.ids)
    /\ \E id \in Range(last.cmd.ids) :
           id \in AreaIds(Last(history.undo).before) /\ id \notin AreaIds(plan) /\ id # selection[1]

----------------------------------------------------------------------------
(* Mirroring twice, in rounded arithmetic.  The shapes are polygons with a *)
(* hole and multipolygons whose coordinates on the mirrored axis range     *)
(* over the representable numbers up to MaxFloat.                          *)

MirrorInputs == { n \in 0..MaxFloat : Representable(n) }

MirrorShapes ==
    { PolygonShape(<< Point(a, 0), Point(b, 4), Point(c, 8) >>, << << Point(a, 1), Point(b, 2), Point(b, 3) >> >>) :
        a \in MirrorInputs, b \in MirrorInputs, c \in MirrorInputs }
    \cup { MultiPolygonShape(<< << Point(0, a), Point(4, a), Point(4, b) >>,
                                << Point(8, c), Point(12, c), Point(8, b) >> >>, << <<>>, <<>> >>) :
        a \in MirrorInputs, b \in MirrorInputs, c \in MirrorInputs }

MirrorCalls ==
    { [fn |-> "mirror;mirror", shape |-> shape, axis |-> axis, done |-> FALSE, result |-> <<>>] :
      shape \in MirrorShapes, axis \in { "vertical", "horizontal" } }

InitMirror ==
    /\ StoreInit
    /\ calc \in MirrorCalls
    /\ mem = NoMem

(* area/mirror applied twice with the same axis *)
MirrorTwice ==
    /\ calc.fn = "mirror;mirror" /\ ~calc.done
    /\ calc' = [calc EXCEPT !.done = TRUE,
                            !.result = MirrorWith(MantissaBits,
                                                  MirrorWith(MantissaBits, calc.shape, calc.axis), calc.axis)]
    /\ StoreIdle

NextMirror == MirrorTwice

SpecMirror == InitMirror /\ [][NextMirror]_vars

(* C39, as stated: mirroring a polygon or multipolygon twice with the same *)
(* axis restores exactly its points and holes.                             *)
C39_MirrorInvolution ==
    Returned("mirror;mirror") => calc.result = calc.shape

(* the first mirror of the shape rounds nothing: the width, the doubled    *)
(* centre and every reflected coordinate are representable                 *)
MirrorsExactly(shape, axis) ==
    LET bbox == shapeBoundingBox(shape)
        lo == IF axis = "vertical" THEN bbox.x ELSE bbox.y
        size == IF axis = "vertical" THEN bbox.width ELSE bbox.height
        pts == ShapePoints(shape)
    IN  /\ Representable(size)
        /\ Representable(2 * lo + size)
        /\ \A i \in 1..Len(pts) :
               Representable(2 * lo + size - (IF axis = "vertical" THEN pts[i].x ELSE pts[i].y))

(* C39, amended: mirroring twice restores the points and holes exactly     *)
(* whenever the bounding-box width, the centre and the reflected           *)
(* coordinates of the first mirror are computed without rounding, as they  *)
(* are for coordinates on the editor's grid.                               *)
C39_MirrorInvolutionExact ==
    (Returned("mirror;mirror") /\ MirrorsExactly(calc.shape, calc.axis)) => calc.result = calc.shape

(* a polygon with a hole, not symmetric, mirrored twice without rounding   *)
C39_Witness ==
    /\ Returned("mirror;mirror")
    /\ calc.shape.type = "polygon"
    /\ MirrorsExactly(calc.shape, calc.axis)
    /\ MirrorWith(MantissaBits, calc.shape, calc.axis) # calc.shape
    /\ calc.result = calc.shape

====
